---- MODULE Spec2Model ----
(***************************************************************************)
(* A model of the Binance trading bot's decision pipeline:                 *)
(*   engine/risk_manager.py      RiskManager                               *)
(*   engine/position_manager.py  PositionManager                           *)
(*   engine/signal_processor.py  SignalProcessor                           *)
(*   engine/trading_engine.py    TradingEngine (start, stop, two loops)    *)
(*                                                                         *)
(* Numbers.  The program computes with Python floats.  The model computes  *)
(* with exact rationals [n |-> numerator, d |-> denominator > 0] in lowest *)
(* terms, so that a division is a division and not a rounding; the input   *)
(* sets avoid values at which float rounding and exact arithmetic differ.  *)
(* Confidences are kept in hundredths (80 is 0.8).                         *)
(***************************************************************************)
EXTENDS Integers, Sequences, FiniteSets, TLC

----------------------------------------------------------------------------
(* Exact arithmetic standing for the float operators + - * / abs min < <=. *)

Abs(x) == IF x < 0 THEN -x ELSE x

RECURSIVE GCD(_, _)
GCD(a, b) == IF b = 0 THEN a ELSE GCD(b, a % b)

Rat(n, d) ==
    LET g == GCD(Abs(n), Abs(d))
        s == IF d < 0 THEN -1 ELSE 1
    IN  [n |-> (s * n) \div g, d |-> (s * d) \div g]

I(k) == [n |-> k, d |-> 1]

Zero == I(0)

\* Once1(Op, a) is Op(a), Once2(Op, a, b) is Op(a, b), and so on: the arguments
\* are evaluated once and passed by value, as Python passes them.
Once1(Op(_), a) == CHOOSE r \in {Op(x) : x \in {a}} : TRUE
Once2(Op(_, _), a, b) == CHOOSE r \in {Op(x, y) : x \in {a}, y \in {b}} : TRUE
Once3(Op(_, _, _), a, b, c) ==
    CHOOSE r \in {Op(x, y, z) : x \in {a}, y \in {b}, z \in {c}} : TRUE

RAdd(a, b) == Once2(LAMBDA x, y : Rat(x.n * y.d + y.n * x.d, x.d * y.d), a, b)
RSub(a, b) == Once2(LAMBDA x, y : Rat(x.n * y.d - y.n * x.d, x.d * y.d), a, b)
RMul(a, b) == Once2(LAMBDA x, y : Rat(x.n * y.n, x.d * y.d), a, b)
RDiv(a, b) == Once2(LAMBDA x, y : Rat(x.n * y.d, x.d * y.n), a, b)
RNeg(a)    == Once1(LAMBDA x : [n |-> -x.n, d |-> x.d], a)
RAbs(a)    == Once1(LAMBDA x : [n |-> Abs(x.n), d |-> x.d], a)
RLt(a, b)  == Once2(LAMBDA x, y : x.n * y.d < y.n * x.d, a, b)
RLe(a, b)  == Once2(LAMBDA x, y : x.n * y.d <= y.n * x.d, a, b)
RGt(a, b)  == RLt(b, a)
RGe(a, b)  == RLe(b, a)
\* Python's min(a, b) and max(a, b): the first argument unless the second is
\* strictly smaller (larger).
RMin(a, b) == Once2(LAMBDA x, y : IF y.n * x.d < x.n * y.d THEN y ELSE x, a, b)
RMax(a, b) == Once2(LAMBDA x, y : IF y.n * x.d > x.n * y.d THEN y ELSE x, a, b)

----------------------------------------------------------------------------
(* Bounds of the model and the input sets the operations draw from.        *)

\* daily_pnl_history is capped by the program at 720 samples; the model lets
\* update_daily_pnl be called while the history is shorter than this.
MaxHistory == 2

Symbols    == {"BTCUSDT", "ETHUSDT"}
SymbolList == <<"BTCUSDT", "ETHUSDT">>

Balances    == {Zero, I(1000)}
EntryPrices == {Zero, I(50), I(100)}
StopPrices  == {Zero, I(50), I(98), I(100)}
MarkPrices  == {I(50), I(100)}
Amounts     == {I(4), I(-4)}
PnlSamples  == {I(-400), I(100)}
Candidates  == {I(1), I(20)}

----------------------------------------------------------------------------
(* RiskManager.__init__: the limits (the constructor's defaults, with      *)
(* max_positions set to 2 as a configuration would, config.max_positions). *)

max_position_size  == Rat(1, 10)
max_total_exposure == Rat(1, 2)
max_daily_loss     == Rat(1, 20)
max_drawdown       == Rat(3, 20)
max_positions      == 2

\* min_position_size = 0.001 in calculate_position_size
min_position_size  == Rat(1, 1000)
\* risk_percentage = 0.02, the default and the value open_position passes
DefaultRiskPercentage == Rat(1, 50)
\* the history cap and the trailing window of _calculate_daily_pnl
HistoryCap  == 720
DailyWindow == 24

VARIABLES
    account_balance,    \* RiskManager.account_balance
    initial_balance,    \* RiskManager.initial_balance
    rm_positions,       \* RiskManager.positions: symbol -> PositionRisk
    daily_pnl_history,  \* RiskManager.daily_pnl_history
    pm_positions,       \* PositionManager.positions: symbol -> tracked position
    dry_run,            \* PositionManager.dry_run
    last_signals,       \* SignalProcessor.last_signals: symbol -> signal
    ret,                \* the last completed call: its name, arguments, result
    orders,             \* the exchange order calls the last call made, in order
    is_running,         \* TradingEngine.is_running
    sig_pc,             \* the signal_loop task: "none", "ready" or "done"
    mon_pc,             \* the monitoring_loop task: where it is suspended
    mon_call,           \* the order call the monitoring loop is suspended on
    opening,            \* an open_position call suspended on its order call
    symbols_to_trade,   \* TradingEngine.symbols_to_trade, a list
    leverage_calls,     \* the symbols set_leverage has been called for
    twin_last_signals,  \* last_signals of a second SignalProcessor, which has a
                        \* higher trading_threshold and is handed the same signals
    strategy,           \* TradingEngine.strategy: its name, parameters and
                        \* cached indicators
    market_data,        \* TradingEngine.market_data: per symbol, the window of
                        \* candles, named by the time it was fetched at
    now,                \* the exchange's clock, in polling ticks
    signal_loops,       \* the signal_loop tasks that have not returned
    monitoring_loops,   \* the monitoring_loop tasks that have not returned
    requests,           \* RateLimiter.requests: the times recorded, a list
    sleeping,           \* the acquire calls suspended in their sleep: the
                        \* caller, its local `now`, and the time it wakes at
    sent,               \* the times at which acquire returned, a list
    clock               \* time.time(), in seconds

rmVars == <<account_balance, initial_balance, rm_positions, daily_pnl_history>>
startVars == <<symbols_to_trade, leverage_calls>>
loopVars == <<is_running, sig_pc, mon_pc, mon_call, opening>>
stratVars == <<strategy>>
dataVars == <<market_data, now>>
taskVars == <<signal_loops, monitoring_loops>>
limVars == <<requests, sleeping, sent, clock>>
auxVars == <<twin_last_signals, stratVars, dataVars, taskVars,
          limVars>>
engVars == <<is_running, sig_pc, mon_pc, mon_call, opening, symbols_to_trade,
             leverage_calls, twin_last_signals, stratVars, dataVars, taskVars,
          limVars>>
vars == <<account_balance, initial_balance, rm_positions, daily_pnl_history,
          pm_positions, dry_run, last_signals, ret, orders,
          is_running, sig_pc, mon_pc, mon_call, opening, symbols_to_trade,
          leverage_calls, twin_last_signals, stratVars, dataVars, taskVars,
          limVars>>

----------------------------------------------------------------------------
(* Dictionaries: a function whose domain is the set of keys.               *)

EmptyMap == [s \in {} |-> Zero]
Put(m, k, v) == [s \in (DOMAIN m) \cup {k} |-> IF s = k THEN v ELSE m[s]]
Del(m, k) == [s \in (DOMAIN m) \ {k} |-> m[s]]

RECURSIVE SumSeq(_)
SumSeq(q) == IF q = <<>> THEN Zero ELSE RAdd(Head(q), SumSeq(Tail(q)))

RECURSIVE SumExposure(_, _)
\* total += position.position_size * position.current_price, over the keys S
SumExposure(positions, S) ==
    IF S = {} THEN Zero
    ELSE LET s == CHOOSE x \in S : TRUE
         IN  RAdd(RMul(positions[s].position_size, positions[s].current_price),
                  SumExposure(positions, S \ {s}))

RECURSIVE SumUnrealized(_, _)
\* sum(pos.unrealized_pnl for pos in self.positions.values()), over the keys S
SumUnrealized(positions, S) ==
    IF S = {} THEN Zero
    ELSE LET s == CHOOSE x \in S : TRUE
         IN  RAdd(positions[s].unrealized_pnl, SumUnrealized(positions, S \ {s}))

----------------------------------------------------------------------------
(* RiskManager                                                             *)

\* PositionRisk(...): the dataclass (symbol is the key of the dictionary)
PositionRisk(size, entry, current, pnl, riskpct, sldist) ==
    [position_size |-> size, entry_price |-> entry, current_price |-> current,
     unrealized_pnl |-> pnl, risk_percentage |-> riskpct,
     stop_loss_distance |-> sldist]

\* _calculate_pnl
CalculatePnl(position) ==
    IF RGt(position.position_size, Zero)
    THEN RMul(RSub(position.current_price, position.entry_price), position.position_size)
    ELSE RMul(RSub(position.entry_price, position.current_price), RAbs(position.position_size))

\* _get_current_price: the placeholder returns 0.0 for every symbol
GetCurrentPrice(symbol) == Zero

\* _calculate_total_exposure
CalculateTotalExposure(positions) == SumExposure(positions, DOMAIN positions)

\* self.daily_pnl_history[-24:]
\* the first k samples instead of the last; a faulty variant, against which
\* C36 is tested
LastSamplesOldest(history, k) ==
    IF Len(history) <= k THEN history
    ELSE SubSeq(history, 1, k)

LastSamples(history, k) ==
    IF Len(history) <= k THEN history
    ELSE SubSeq(history, Len(history) - k + 1, Len(history))

\* _calculate_daily_pnl
CalculateDailyPnl(history) ==
    IF history = <<>> THEN Zero ELSE SumSeq(LastSamples(history, DailyWindow))

\* _calculate_drawdown
CalculateDrawdown(balance, initial, positions) ==
    IF initial = Zero THEN Zero
    ELSE LET current_balance ==
                 RAdd(balance, SumUnrealized(positions, DOMAIN positions))
         IN  IF RGe(current_balance, initial) THEN Zero
             ELSE RDiv(RSub(initial, current_balance), initial)

\* calculate_position_size, were it to return the larger of the two sizes
\* (a faulty variant, against which C1 is tested)
CalculatePositionSizeMax(balance, entry_price, stop_loss_price, risk_percentage) ==
    IF RLe(entry_price, Zero) \/ RLe(stop_loss_price, Zero)
    THEN [status |-> "RiskManagementError", value |-> Zero]
    ELSE LET risk_per_share == RAbs(RSub(entry_price, stop_loss_price)) IN
         IF risk_per_share = Zero
         THEN [status |-> "RiskManagementError", value |-> Zero]
         ELSE LET position_size == RDiv(RMul(balance, risk_percentage), risk_per_share)
                  by_value == RDiv(RMul(balance, max_position_size), entry_price)
                  final == RMax(position_size, by_value)
              IN  IF RLt(final, min_position_size)
                  THEN [status |-> "InsufficientFundsError", value |-> Zero]
                  ELSE [status |-> "ok", value |-> final]

\* calculate_position_size, were it to return a size below the minimum (a
\* faulty variant, against which C17 is tested)
CalculatePositionSizeNoMinimum(balance, entry_price, stop_loss_price, risk_percentage) ==
    IF RLe(entry_price, Zero) \/ RLe(stop_loss_price, Zero)
    THEN [status |-> "RiskManagementError", value |-> Zero]
    ELSE LET risk_per_share == RAbs(RSub(entry_price, stop_loss_price)) IN
         IF risk_per_share = Zero
         THEN [status |-> "RiskManagementError", value |-> Zero]
         ELSE LET position_size == RDiv(RMul(balance, risk_percentage), risk_per_share)
                  by_value == RDiv(RMul(balance, max_position_size), entry_price)
              IN  [status |-> "ok", value |-> RMin(position_size, by_value)]

\* calculate_position_size, were it to return the risk-based size without
\* the cap of max_position_size (a faulty variant, against which C18 is tested)
CalculatePositionSizeUncapped(balance, entry_price, stop_loss_price, risk_percentage) ==
    IF RLe(entry_price, Zero) \/ RLe(stop_loss_price, Zero)
    THEN [status |-> "RiskManagementError", value |-> Zero]
    ELSE LET risk_per_share == RAbs(RSub(entry_price, stop_loss_price)) IN
         IF risk_per_share = Zero
         THEN [status |-> "RiskManagementError", value |-> Zero]
         ELSE LET position_size == RDiv(RMul(balance, risk_percentage), risk_per_share)
              IN  IF RLt(position_size, min_position_size)
                  THEN [status |-> "InsufficientFundsError", value |-> Zero]
                  ELSE [status |-> "ok", value |-> position_size]

\* calculate_position_size: the size, or the error it raises
CalculatePositionSize(balance, entry_price, stop_loss_price, risk_percentage) ==
    IF RLe(entry_price, Zero) \/ RLe(stop_loss_price, Zero)
    THEN [status |-> "RiskManagementError", value |-> Zero]
    ELSE LET risk_per_share == RAbs(RSub(entry_price, stop_loss_price)) IN
         IF risk_per_share = Zero
         THEN [status |-> "RiskManagementError", value |-> Zero]
         ELSE LET max_risk_amount == RMul(balance, risk_percentage)
                  position_size == RDiv(max_risk_amount, risk_per_share)
                  max_position_value == RMul(balance, max_position_size)
                  max_position_size_by_value == RDiv(max_position_value, entry_price)
                  final_position_size == RMin(position_size, max_position_size_by_value)
              IN  IF RLt(final_position_size, min_position_size)
                  THEN [status |-> "InsufficientFundsError", value |-> Zero]
                  ELSE [status |-> "ok", value |-> final_position_size]

\* check_risk_limits: the set of violated rules (the messages, by rule name);
\* ok is len(violations) == 0
CheckRiskLimits(balance, initial, positions, history, new_position_size, symbol) ==
    LET position_value == RMul(new_position_size, GetCurrentPrice(symbol))
        new_exposure == RAdd(CalculateTotalExposure(positions), position_value)
        violations ==
            (IF RGt(position_value, RMul(balance, max_position_size))
                THEN {"position_size"} ELSE {})
            \cup (IF RGt(new_exposure, RMul(balance, max_total_exposure))
                THEN {"total_exposure"} ELSE {})
            \cup (IF Cardinality(DOMAIN positions) >= max_positions
                THEN {"max_positions"} ELSE {})
            \cup (IF RLt(CalculateDailyPnl(history), RNeg(RMul(balance, max_daily_loss)))
                THEN {"daily_loss"} ELSE {})
            \cup (IF RGt(CalculateDrawdown(balance, initial, positions), max_drawdown)
                THEN {"drawdown"} ELSE {})
    IN  [ok |-> violations = {}, violations |-> violations]

----------------------------------------------------------------------------
(* The calls on a RiskManager, each one atomic (the methods are            *)
(* synchronous).                                                           *)

Idle == [op |-> "none"]

\* set_account_balance
SetAccountBalance(balance) ==
    /\ initial_balance' = IF initial_balance = Zero THEN balance ELSE initial_balance
    /\ account_balance' = balance
    /\ ret' = [op |-> "set_account_balance"]
    /\ orders' = <<>>
    /\ UNCHANGED <<rm_positions, daily_pnl_history, pm_positions, dry_run, last_signals>>

\* add_position
AddPosition(symbol, position) ==
    /\ rm_positions' = Put(rm_positions, symbol, position)
    /\ ret' = [op |-> "add_position"]
    /\ orders' = <<>>
    /\ UNCHANGED <<account_balance, initial_balance, daily_pnl_history,
                   pm_positions, dry_run, last_signals>>

\* remove_position
RemovePosition(symbol) ==
    /\ rm_positions' = Del(rm_positions, symbol)
    /\ ret' = [op |-> "remove_position"]
    /\ orders' = <<>>
    /\ UNCHANGED <<account_balance, initial_balance, daily_pnl_history,
                   pm_positions, dry_run, last_signals>>

\* update_position: the division by a zero balance raises ZeroDivisionError
\* after current_price and unrealized_pnl were assigned
UpdatePosition(symbol, current_price) ==
    /\ IF symbol \in DOMAIN rm_positions
       THEN LET p1 == [rm_positions[symbol] EXCEPT !.current_price = current_price]
                p2 == [p1 EXCEPT !.unrealized_pnl = CalculatePnl(p1)]
                p3 == IF account_balance = Zero THEN p2
                      ELSE [p2 EXCEPT !.risk_percentage =
                                RDiv(RAbs(p2.unrealized_pnl), account_balance)]
            IN  rm_positions' = Put(rm_positions, symbol, p3)
       ELSE rm_positions' = rm_positions
    /\ ret' = [op |-> "update_position", symbol |-> symbol,
               current_price |-> current_price,
               raised |-> symbol \in DOMAIN rm_positions /\ account_balance = Zero]
    /\ orders' = <<>>
    /\ UNCHANGED <<account_balance, initial_balance, daily_pnl_history,
                   pm_positions, dry_run, last_signals>>

\* update_daily_pnl
UpdateDailyPnl(pnl) ==
    /\ Len(daily_pnl_history) < MaxHistory
    /\ LET appended == Append(daily_pnl_history, pnl)
       IN  daily_pnl_history' =
               IF Len(appended) > HistoryCap
               THEN LastSamples(appended, HistoryCap) ELSE appended
    /\ ret' = [op |-> "update_daily_pnl"]
    /\ orders' = <<>>
    /\ UNCHANGED <<account_balance, initial_balance, rm_positions,
                   pm_positions, dry_run, last_signals>>

\* a call of calculate_position_size; it changes nothing
CallCalculatePositionSize(symbol, entry_price, stop_loss_price, risk_percentage) ==
    /\ ret' = [op |-> "calculate_position_size", entry_price |-> entry_price,
               stop_loss_price |-> stop_loss_price,
               risk_percentage |-> risk_percentage,
               result |-> CalculatePositionSize(account_balance, entry_price,
                                                stop_loss_price, risk_percentage)]
    /\ orders' = <<>>
    /\ UNCHANGED <<rmVars, pm_positions, dry_run, last_signals>>

\* a call of check_risk_limits; it changes nothing
CallCheckRiskLimits(new_position_size, symbol) ==
    /\ ret' = [op |-> "check_risk_limits", size |-> new_position_size,
               symbol |-> symbol,
               result |-> CheckRiskLimits(account_balance, initial_balance,
                              rm_positions, daily_pnl_history,
                              new_position_size, symbol)]
    /\ orders' = <<>>
    /\ UNCHANGED <<rmVars, pm_positions, dry_run, last_signals>>

\* remove_position, were it to leave the map as it is (a faulty variant,
\* against which C21 is tested)
PositionsAfterRemoveKept(positions, symbol) == positions

\* the position map remove_position leaves
PositionsAfterRemove(positions, symbol) == Del(positions, symbol)

\* add_position immediately followed by remove_position of the same symbol
AddThenRemovePosition(symbol, position) ==
    /\ rm_positions' = PositionsAfterRemove(Put(rm_positions, symbol, position), symbol)
    /\ ret' = [op |-> "add_then_remove", symbol |-> symbol]
    /\ orders' = <<>>
    /\ UNCHANGED <<account_balance, initial_balance, daily_pnl_history,
                   pm_positions, dry_run, last_signals>>

\* the RiskManager's fields as a call finds them
RiskState ==
    [balance |-> account_balance, initial |-> initial_balance,
     positions |-> rm_positions, history |-> daily_pnl_history]

\* check_risk_limits, were it to record the candidate it has checked as a
\* position (a faulty variant, against which C20 is tested)
CheckRiskLimitsReserving(st, new_position_size, symbol) ==
    [state |-> [st EXCEPT !.positions =
                    Put(@, symbol, PositionRisk(new_position_size, Zero, Zero,
                                                Zero, Zero, Zero))],
     result |-> CheckRiskLimits(st.balance, st.initial, st.positions, st.history,
                                new_position_size, symbol)]

\* check_risk_limits on the fields st: the fields it leaves (it assigns to
\* none of them) and the pair it returns
CheckRiskLimitsOn(st, new_position_size, symbol) ==
    [state |-> st,
     result |-> CheckRiskLimits(st.balance, st.initial, st.positions, st.history,
                                new_position_size, symbol)]

\* two calls of check_risk_limits in a row, with the same candidate
CallCheckRiskLimitsTwice(new_position_size, symbol) ==
    \E first \in {CheckRiskLimitsOn(RiskState, new_position_size, symbol)} :
      \E second \in {CheckRiskLimitsOn(first.state, new_position_size, symbol)} :
        /\ account_balance' = second.state.balance
        /\ initial_balance' = second.state.initial
        /\ rm_positions' = second.state.positions
        /\ daily_pnl_history' = second.state.history
        /\ ret' = [op |-> "check_risk_limits_twice", size |-> new_position_size,
                   symbol |-> symbol, first |-> first.result,
                   second |-> second.result]
        /\ orders' = <<>>
        /\ UNCHANGED <<pm_positions, dry_run, last_signals>>

\* the PositionRisk values a caller adds: long or short, with the unrealized
\* P&L of its prices
InputPositions ==
    { PositionRisk(a, I(100), c,
                   CalculatePnl(PositionRisk(a, I(100), c, Zero, Zero, Zero)),
                   Zero, Zero) : a \in Amounts, c \in MarkPrices }

----------------------------------------------------------------------------
\* The strategies (strategies/base.py, triple_ema.py, stoch_rsi_macd.py).
\* A strategy is its name, its parameters and its cached indicators: a map
\* from indicator names to series. Index i of a Python series is element
\* i + 1 of the sequence. Confidences are in hundredths.

HoldResult == [signal |-> "hold", confidence |-> 0]

\* a read that looks the name up without testing for it first, so that a
\* missing indicator raises the dict's KeyError; a faulty variant, against
\* which C34 is tested
GetIndicatorValueUnguarded(indicators, indicator_name, index) ==
    IF indicator_name \notin DOMAIN indicators
    THEN [raised |-> "KeyError", value |-> 0]
    ELSE IF index >= Len(indicators[indicator_name]) \/ index < 0
    THEN [raised |-> "IndexError", value |-> 0]
    ELSE [raised |-> "none", value |-> indicators[indicator_name][index + 1]]

\* BaseStrategy.get_indicator_value: the value read, or the exception raised
GetIndicatorValue(indicators, indicator_name, index) ==
    IF indicator_name \notin DOMAIN indicators
    THEN [raised |-> "ValueError", value |-> 0]
    ELSE IF index >= Len(indicators[indicator_name]) \/ index < 0
    THEN [raised |-> "IndexError", value |-> 0]
    ELSE [raised |-> "none", value |-> indicators[indicator_name][index + 1]]

\* the result of a generate_signal whose try block met the exceptions `raised`:
\* IndexError and ValueError are caught, anything else leaves the call
Caught(raised) ==
    IF raised \subseteq {"none", "IndexError", "ValueError"}
    THEN HoldResult
    ELSE [signal |-> "raise", confidence |-> 0]

TripleEMAParameters ==
    [fast_ema |-> 5, medium_ema |-> 20, slow_ema |-> 50, min_candles |-> 4]

\* the crossover test that also fires when the fast line only touches the
\* others; a faulty variant, against which C32 is tested
TripleEMACrossoverTouching(fast_prev, medium_prev, slow_prev, fast, medium, slow) ==
    IF fast_prev > medium_prev /\ fast_prev > slow_prev
       /\ fast <= medium /\ fast <= slow
    THEN [signal |-> "sell", confidence |-> 80]
    ELSE IF fast_prev < medium_prev /\ fast_prev < slow_prev
            /\ fast >= medium /\ fast >= slow
    THEN [signal |-> "buy", confidence |-> 80]
    ELSE HoldResult

\* TripleEMAStrategy.generate_signal, the two crossover tests
TripleEMACrossover(fast_prev, medium_prev, slow_prev, fast, medium, slow) ==
    IF fast_prev > medium_prev /\ fast_prev > slow_prev
       /\ fast < medium /\ fast < slow
    THEN [signal |-> "sell", confidence |-> 80]
    ELSE IF fast_prev < medium_prev /\ fast_prev < slow_prev
            /\ fast > medium /\ fast > slow
    THEN [signal |-> "buy", confidence |-> 80]
    ELSE HoldResult

\* TripleEMAStrategy.generate_signal
TripleEMAGenerateSignal(parameters, indicators, current_index) ==
    IF current_index < parameters.min_candles THEN HoldResult
    ELSE LET fast == GetIndicatorValue(indicators, "ema_fast", current_index)
             medium == GetIndicatorValue(indicators, "ema_medium", current_index)
             slow == GetIndicatorValue(indicators, "ema_slow", current_index)
             fast_prev == GetIndicatorValue(indicators, "ema_fast", current_index - 1)
             medium_prev == GetIndicatorValue(indicators, "ema_medium", current_index - 1)
             slow_prev == GetIndicatorValue(indicators, "ema_slow", current_index - 1)
             raised == {fast.raised, medium.raised, slow.raised,
                        fast_prev.raised, medium_prev.raised, slow_prev.raised}
         IN  IF raised # {"none"} THEN Caught(raised)
             ELSE TripleEMACrossover(fast_prev.value, medium_prev.value,
                                     slow_prev.value, fast.value,
                                     medium.value, slow.value)

StochRSIMACDParameters ==
    [rsi_oversold |-> 30, rsi_overbought |-> 70,
     stoch_oversold |-> 20, stoch_overbought |-> 80]

\* the index below which StochRSIMACDStrategy.generate_signal holds
StochLookback == 50

\* sum() of a list of four booleans
Score(conditions) == Cardinality({i \in DOMAIN conditions : conditions[i]})

MinInt(a, b) == IF a < b THEN a ELSE b

\* the conditions counted on the current values alone, without the crossings;
\* a faulty variant, against which C33 is tested
StochRSIMACDDecisionNoCrossing(parameters, cur, prev) ==
    LET rsi == cur.rsi
        stoch_k == cur.stoch_k
        stoch_d == cur.stoch_d
        macd == cur.macd
        macd_signal == cur.macd_signal
        stoch_k_prev == prev.stoch_k
        stoch_d_prev == prev.stoch_d
        macd_prev == prev.macd
        macd_signal_prev == prev.macd_signal
        buy_score == Score(<<
            stoch_k < parameters.stoch_oversold /\ stoch_d < parameters.stoch_oversold,
            rsi > 50,
            macd > macd_signal,
            stoch_k > stoch_d>>)
        sell_score == Score(<<
            stoch_k > parameters.stoch_overbought /\ stoch_d > parameters.stoch_overbought,
            rsi < 50,
            macd < macd_signal,
            stoch_k < stoch_d>>)
    IN  IF buy_score >= 3
        THEN [signal |-> "buy", confidence |-> MinInt(90, 50 + buy_score * 10)]
        ELSE IF sell_score >= 3
        THEN [signal |-> "sell", confidence |-> MinInt(90, 50 + sell_score * 10)]
        ELSE HoldResult

\* StochRSIMACDStrategy.generate_signal, from the values read to the result
StochRSIMACDDecision(parameters, cur, prev) ==
    LET rsi == cur.rsi
        stoch_k == cur.stoch_k
        stoch_d == cur.stoch_d
        macd == cur.macd
        macd_signal == cur.macd_signal
        stoch_k_prev == prev.stoch_k
        stoch_d_prev == prev.stoch_d
        macd_prev == prev.macd
        macd_signal_prev == prev.macd_signal
        buy_score == Score(<<
            stoch_k < parameters.stoch_oversold /\ stoch_d < parameters.stoch_oversold,
            rsi > 50,
            macd > macd_signal /\ macd_prev < macd_signal_prev,
            stoch_k > stoch_d /\ stoch_k_prev < stoch_d_prev>>)
        sell_score == Score(<<
            stoch_k > parameters.stoch_overbought /\ stoch_d > parameters.stoch_overbought,
            rsi < 50,
            macd < macd_signal /\ macd_prev > macd_signal_prev,
            stoch_k < stoch_d /\ stoch_k_prev > stoch_d_prev>>)
    IN  IF buy_score >= 3
        THEN [signal |-> "buy", confidence |-> MinInt(90, 50 + buy_score * 10)]
        ELSE IF sell_score >= 3
        THEN [signal |-> "sell", confidence |-> MinInt(90, 50 + sell_score * 10)]
        ELSE HoldResult

\* StochRSIMACDStrategy.generate_signal
StochRSIMACDGenerateSignal(parameters, indicators, current_index) ==
    IF current_index < StochLookback THEN HoldResult
    ELSE LET rsi == GetIndicatorValue(indicators, "rsi", current_index)
             stoch_k == GetIndicatorValue(indicators, "stoch_k", current_index)
             stoch_d == GetIndicatorValue(indicators, "stoch_d", current_index)
             macd == GetIndicatorValue(indicators, "macd", current_index)
             macd_signal == GetIndicatorValue(indicators, "macd_signal", current_index)
             stoch_k_prev == GetIndicatorValue(indicators, "stoch_k", current_index - 1)
             stoch_d_prev == GetIndicatorValue(indicators, "stoch_d", current_index - 1)
             macd_prev == GetIndicatorValue(indicators, "macd", current_index - 1)
             macd_signal_prev ==
                 GetIndicatorValue(indicators, "macd_signal", current_index - 1)
             raised == {rsi.raised, stoch_k.raised, stoch_d.raised, macd.raised,
                        macd_signal.raised, stoch_k_prev.raised,
                        stoch_d_prev.raised, macd_prev.raised,
                        macd_signal_prev.raised}
         IN  IF raised # {"none"} THEN Caught(raised)
             ELSE StochRSIMACDDecision(parameters,
                      [rsi |-> rsi.value, stoch_k |-> stoch_k.value,
                       stoch_d |-> stoch_d.value, macd |-> macd.value,
                       macd_signal |-> macd_signal.value],
                      [stoch_k |-> stoch_k_prev.value,
                       stoch_d |-> stoch_d_prev.value,
                       macd |-> macd_prev.value,
                       macd_signal |-> macd_signal_prev.value])

\* strategy.generate_signal, by the class of the strategy
GenerateSignalOf(s, current_index) ==
    IF s.name = "tripleEMA"
    THEN TripleEMAGenerateSignal(s.parameters, s.indicators, current_index)
    ELSE StochRSIMACDGenerateSignal(s.parameters, s.indicators, current_index)

\* a strategy as constructed: BaseStrategy.__init__ leaves indicators empty
NewTripleEMA ==
    [name |-> "tripleEMA", parameters |-> TripleEMAParameters,
     indicators |-> EmptyMap]

InitBase ==
    /\ account_balance = Zero
    /\ initial_balance = Zero
    /\ rm_positions = EmptyMap
    /\ daily_pnl_history = <<>>
    /\ pm_positions = EmptyMap
    /\ dry_run \in BOOLEAN
    /\ last_signals = EmptyMap
    /\ ret = Idle
    /\ orders = <<>>
    /\ is_running = FALSE
    /\ sig_pc = "none"
    /\ mon_pc = "none"
    /\ mon_call = Idle
    /\ opening = Idle
    /\ symbols_to_trade = <<>>
    /\ leverage_calls = {}
    /\ twin_last_signals = EmptyMap
    /\ market_data = EmptyMap
    /\ now = 0
    /\ signal_loops = 0
    /\ monitoring_loops = 0
    /\ requests = <<>>
    /\ sleeping = {}
    /\ sent = <<>>
    /\ clock = 0

Init ==
    /\ InitBase
    /\ strategy = NewTripleEMA

\* A RiskManager driven through its public methods, as its unit tests drive it.
InitRisk == Init /\ dry_run = FALSE

NextRisk ==
    /\ UNCHANGED engVars
    /\ \/ \E b \in Balances : SetAccountBalance(b)
       \/ \E s \in Symbols, p \in InputPositions : AddPosition(s, p)
       \/ \E s \in Symbols : RemovePosition(s)
       \/ \E s \in Symbols, c \in MarkPrices : UpdatePosition(s, c)
       \/ \E x \in PnlSamples : UpdateDailyPnl(x)
       \/ \E e \in EntryPrices, sl \in StopPrices :
              CallCalculatePositionSize(SymbolList[1], e, sl, DefaultRiskPercentage)
       \/ \E c \in Candidates, s \in Symbols : CallCheckRiskLimits(c, s)
       \/ \E c \in Candidates, s \in Symbols : CallCheckRiskLimitsTwice(c, s)
       \/ \E s \in Symbols, p \in InputPositions : AddThenRemovePosition(s, p)

SpecRisk == InitRisk /\ [][NextRisk]_vars

----------------------------------------------------------------------------
(* RiskManager: metrics and closure triggers                               *)

\* _calculate_risk_score
CalculateRiskScore(balance, total_exposure, daily_pnl, drawdown) ==
    LET exposure_ratio == IF RGt(balance, Zero) THEN RDiv(total_exposure, balance) ELSE Zero
        s1 == RMin(I(30), RMul(exposure_ratio, I(100)))
        pnl_ratio == IF RGt(balance, Zero) THEN RDiv(RAbs(daily_pnl), balance) ELSE Zero
        s2 == IF RLt(daily_pnl, Zero)
              THEN RAdd(s1, RMin(I(30), RMul(pnl_ratio, I(100)))) ELSE s1
        s3 == RAdd(s2, RMin(I(40), RMul(drawdown, I(100))))
    IN  RMin(I(100), s3)

\* the if/elif chain of calculate_risk_metrics
RiskLevelOf(risk_score) ==
    Once1(LAMBDA score :
              IF RLt(score, I(30)) THEN "low"
              ELSE IF RLt(score, I(60)) THEN "medium"
              ELSE IF RLt(score, I(80)) THEN "high"
              ELSE "critical",
          risk_score)

\* calculate_risk_metrics
CalculateRiskMetrics(balance, initial, positions, history) ==
    LET Metrics(total_exposure, daily_pnl, drawdown) ==
            Once1(LAMBDA risk_score :
                      [total_exposure |-> total_exposure, max_drawdown |-> drawdown,
                       daily_pnl |-> daily_pnl,
                       position_count |-> Cardinality(DOMAIN positions),
                       risk_score |-> risk_score,
                       risk_level |-> RiskLevelOf(risk_score)],
                  CalculateRiskScore(balance, total_exposure, daily_pnl, drawdown))
    IN  Once3(Metrics, CalculateTotalExposure(positions),
              CalculateDailyPnl(history),
              CalculateDrawdown(balance, initial, positions))

\* should_close_position, were it to look at the position's risk first (a
\* faulty variant, against which C13 is tested)
ShouldClosePositionRiskFirst(balance, positions, symbol) ==
    IF symbol \notin DOMAIN positions
    THEN [close |-> FALSE, reason |-> "Position not found"]
    ELSE LET position == positions[symbol] IN
         IF RGt(position.risk_percentage, Rat(5, 100))
         THEN [close |-> TRUE, reason |-> "Position risk too high"]
         ELSE IF RLt(position.unrealized_pnl, RNeg(RMul(balance, Rat(2, 100))))
         THEN [close |-> TRUE, reason |-> "Stop loss triggered"]
         ELSE IF RGt(position.unrealized_pnl, RMul(balance, Rat(4, 100)))
         THEN [close |-> TRUE, reason |-> "Take profit reached"]
         ELSE [close |-> FALSE, reason |-> "Position within risk limits"]

\* should_close_position
ShouldClosePosition(balance, positions, symbol) ==
    IF symbol \notin DOMAIN positions
    THEN [close |-> FALSE, reason |-> "Position not found"]
    ELSE LET position == positions[symbol] IN
         IF RLt(position.unrealized_pnl, RNeg(RMul(balance, Rat(2, 100))))
         THEN [close |-> TRUE, reason |-> "Stop loss triggered"]
         ELSE IF RGt(position.unrealized_pnl, RMul(balance, Rat(4, 100)))
         THEN [close |-> TRUE, reason |-> "Take profit reached"]
         ELSE IF RGt(position.risk_percentage, Rat(5, 100))
         THEN [close |-> TRUE, reason |-> "Position risk too high"]
         ELSE [close |-> FALSE, reason |-> "Position within risk limits"]

----------------------------------------------------------------------------
(* The RiskManager of the unit tests: the fixture's limits are the ones    *)
(* above, and the calls are made with the values the tests use.            *)

\* a call of should_close_position; it changes nothing
CallShouldClosePosition(symbol) ==
    /\ ret' = [op |-> "should_close_position", symbol |-> symbol,
               result |-> ShouldClosePosition(account_balance, rm_positions, symbol)]
    /\ orders' = <<>>
    /\ UNCHANGED <<rmVars, pm_positions, dry_run, last_signals>>

\* the sample_position fixture
sample_position ==
    PositionRisk(Rat(1, 10), I(50000), I(51000), I(100), Rat(1, 50), I(1000))

\* the balances, current prices, entry and stop prices and candidate sizes of
\* the tests, and some around them
FixtureBalances == {I(10000), I(100000)}
FixturePrices == {I(40000), I(48000), I(50100), I(55000), I(60000)}
FixtureEntries == {Zero, I(50000)}
FixtureStops == {I(49000), I(50000)}
FixtureCandidates == {Rat(1, 20), Rat(1, 5)}

NextFixture ==
    /\ UNCHANGED engVars
    /\ \/ \E b \in FixtureBalances : SetAccountBalance(b)
       \/ \E s \in Symbols : AddPosition(s, sample_position)
       \/ \E s \in Symbols, c \in FixturePrices : UpdatePosition(s, c)
       \/ \E s \in Symbols : CallShouldClosePosition(s)
       \/ \E e \in FixtureEntries, sl \in FixtureStops :
              CallCalculatePositionSize(SymbolList[1], e, sl, DefaultRiskPercentage)
       \/ \E c \in FixtureCandidates, s \in Symbols : CallCheckRiskLimits(c, s)

SpecFixture == InitRisk /\ [][NextFixture]_vars

----------------------------------------------------------------------------
(* PositionManager.  The exchange client is the environment: a call of     *)
(* place_order or get_account_info returns or raises, and each order call  *)
(* is logged in orders as [symbol, side, quantity, ok].                    *)

\* the dictionary open_position and _update_position store (timestamp and
\* order_id, which nothing reads, are left out)
TrackedPosition(size, entry, current, pnl, side) ==
    [size |-> size, entry_price |-> entry, current_price |-> current,
     unrealized_pnl |-> pnl, side |-> side]

Order(symbol, side, quantity, ok) ==
    [symbol |-> symbol, side |-> side, quantity |-> quantity, ok |-> ok]

\* _calculate_stop_loss_price; a stop_loss of None or 0.0 is falsy, and Zero
\* stands for both
CalculateStopLossPrice(signal_result, current_price) ==
    IF signal_result.stop_loss # Zero THEN signal_result.stop_loss
    ELSE IF signal_result.signal = "buy"
         THEN RMul(current_price, Rat(98, 100))
         ELSE RMul(current_price, Rat(102, 100))

\* open_position up to its order call, were it not to consult the limits
\* (a faulty variant, against which C4 is tested)
OpenDecisionUnchecked(balance, initial, positions, history, symbol, signal_result, current_price) ==
    LET stop_loss_price == CalculateStopLossPrice(signal_result, current_price)
        sizing == CalculatePositionSize(balance, current_price, stop_loss_price,
                                        DefaultRiskPercentage)
    IN  [place |-> sizing.status = "ok",
         side |-> IF signal_result.signal = "buy" THEN "BUY" ELSE "SELL",
         position_size |-> sizing.value,
         stop_loss_price |-> stop_loss_price]

\* open_position up to its order call: whether an order is placed, and which.
\* A sizing error is caught by the method's except clause; a violated limit
\* returns None.
OpenDecision(balance, initial, positions, history, symbol, signal_result, current_price) ==
    LET stop_loss_price == CalculateStopLossPrice(signal_result, current_price)
        sizing == CalculatePositionSize(balance, current_price, stop_loss_price,
                                        DefaultRiskPercentage)
        limits == CheckRiskLimits(balance, initial, positions, history,
                                  sizing.value, symbol)
    IN  [place |-> sizing.status = "ok" /\ limits.ok,
         side |-> IF signal_result.signal = "buy" THEN "BUY" ELSE "SELL",
         position_size |-> sizing.value,
         stop_loss_price |-> stop_loss_price]

\* open_position after the order call returned: the two records it stores
OpenedTracked(decision, current_price) ==
    TrackedPosition(IF decision.side = "BUY" THEN decision.position_size
                    ELSE RNeg(decision.position_size),
                    current_price, current_price, Zero, decision.side)

OpenedRisk(decision, current_price) ==
    PositionRisk(IF decision.side = "BUY" THEN decision.position_size
                 ELSE RNeg(decision.position_size),
                 current_price, current_price, Zero, Zero,
                 RAbs(RSub(current_price, decision.stop_loss_price)))

\* open_position, the whole call; exchange_ok is whether place_order returns.
\* (\E x \in {e} binds x to the value of e, evaluated once.)
OpenPosition(symbol, signal_result, current_price, exchange_ok) ==
    \E decision \in {OpenDecision(account_balance, initial_balance, rm_positions,
                      daily_pnl_history, symbol, signal_result, current_price)} :
    LET placed == ~dry_run /\ decision.place
        filled == placed /\ exchange_ok
    IN  /\ orders' = IF placed
                     THEN <<Order(symbol, decision.side, decision.position_size, exchange_ok)>>
                     ELSE <<>>
        /\ pm_positions' = IF filled
                           THEN Put(pm_positions, symbol, OpenedTracked(decision, current_price))
                           ELSE pm_positions
        /\ rm_positions' = IF filled
                           THEN Put(rm_positions, symbol, OpenedRisk(decision, current_price))
                           ELSE rm_positions
        /\ ret' = [op |-> "open_position", symbol |-> symbol,
                   signal |-> signal_result, close |-> current_price,
                   result |-> IF dry_run THEN "dry_run"
                              ELSE IF filled THEN "order" ELSE "none"]
        /\ UNCHANGED <<account_balance, initial_balance, daily_pnl_history,
                       dry_run, last_signals>>

\* _close_position, were it not to look at dry_run (a faulty variant, against
\* which C12 is tested)
ClosePositionOnLive(st, symbol, exchange_ok) ==
    IF symbol \notin DOMAIN st.pm THEN st
    ELSE LET position_size == st.pm[symbol].size
             side == IF RGt(position_size, Zero) THEN "SELL" ELSE "BUY"
             quantity == RAbs(position_size)
             logged == Append(st.orders, Order(symbol, side, quantity, exchange_ok))
         IN  IF exchange_ok
             THEN [pm |-> Del(st.pm, symbol), rm |-> Del(st.rm, symbol),
                   orders |-> logged]
             ELSE [st EXCEPT !.orders = logged]

\* _close_position, were it to remove the position before the order call
\* returned (a faulty variant, against which C5 is tested)
ClosePositionOnRemoveFirst(st, symbol, exchange_ok) ==
    IF dry_run \/ symbol \notin DOMAIN st.pm THEN st
    ELSE LET position_size == st.pm[symbol].size
             side == IF RGt(position_size, Zero) THEN "SELL" ELSE "BUY"
             quantity == RAbs(position_size)
         IN  [pm |-> Del(st.pm, symbol), rm |-> Del(st.rm, symbol),
              orders |-> Append(st.orders, Order(symbol, side, quantity, exchange_ok))]

\* _close_position on the state st = [pm, rm, orders]; exchange_ok is whether
\* place_order returns.  A failed order is caught by the except clause before
\* anything is removed.
ClosePositionOn(st, symbol, exchange_ok) ==
    IF dry_run \/ symbol \notin DOMAIN st.pm THEN st
    ELSE LET position_size == st.pm[symbol].size
             side == IF RGt(position_size, Zero) THEN "SELL" ELSE "BUY"
             quantity == RAbs(position_size)
             logged == Append(st.orders, Order(symbol, side, quantity, exchange_ok))
         IN  IF exchange_ok
             THEN [pm |-> Del(st.pm, symbol), rm |-> Del(st.rm, symbol), orders |-> logged]
             ELSE [st EXCEPT !.orders = logged]

\* _update_position, were it to store the PositionRisk only (a faulty variant,
\* against which C6 is tested)
UpdatePositionOnRiskOnly(st, balance, data) ==
    IF balance = Zero THEN st
    ELSE [st EXCEPT
            !.rm = Put(st.rm, data.symbol,
                       PositionRisk(data.positionAmt, data.entryPrice, data.markPrice,
                                    data.unRealizedProfit,
                                    RDiv(RAbs(data.unRealizedProfit), balance),
                                    Zero))]

\* _update_position: a zero balance makes the PositionRisk constructor's
\* division raise, and an entry whose entryPrice is no number (valid =
\* "bad_price") makes float() raise; the except clause catches either before
\* either map changes
UpdatePositionOn(st, balance, data) ==
    IF balance = Zero \/ data.valid = "bad_price" THEN st
    ELSE [st EXCEPT
            !.rm = Put(st.rm, data.symbol,
                       PositionRisk(data.positionAmt, data.entryPrice, data.markPrice,
                                    data.unRealizedProfit,
                                    RDiv(RAbs(data.unRealizedProfit), balance),
                                    Zero)),
            !.pm = Put(st.pm, data.symbol,
                       TrackedPosition(data.positionAmt, data.entryPrice, data.markPrice,
                                       data.unRealizedProfit,
                                       IF RGt(data.positionAmt, Zero)
                                       THEN "LONG" ELSE "SHORT"))]

RECURSIVE UpdateReported(_, _, _)
\* the for loop of update_all_positions over account_info.positions; an entry
\* whose positionAmt is no number (valid = "bad_amount") makes float() raise
\* in the loop itself, which ends the loop
UpdateReported(st, balance, report) ==
    IF report = <<>> THEN st
    ELSE IF Head(report).valid = "bad_amount" THEN st
    ELSE LET data == Head(report)
             st1 == IF RGt(RAbs(data.positionAmt), Zero)
                    THEN UpdatePositionOn(st, balance, data) ELSE st
         IN  Once1(LAMBDA s : UpdateReported(s, balance, Tail(report)), st1)

\* list(self.positions.keys()): the tracked symbols, in the order of SymbolList
KeyList(m) == SelectSeq(SymbolList, LAMBDA s : s \in DOMAIN m)

RECURSIVE CheckClosures(_, _, _, _)
\* _check_position_closures over the symbols todo; close_ok[s] is whether the
\* order closing s returns
CheckClosures(st, balance, todo, close_ok) ==
    IF todo = <<>> THEN st
    ELSE LET symbol == Head(todo)
             decision == ShouldClosePosition(balance, st.rm, symbol)
             st1 == IF decision.close
                    THEN ClosePositionOn(st, symbol, close_ok[symbol]) ELSE st
         IN  Once1(LAMBDA s : CheckClosures(s, balance, Tail(todo), close_ok), st1)

\* an exception raised in the for loop of update_all_positions is caught by
\* the except clause of update_all_positions, past _check_position_closures
SweepAborts(report) == \E i \in DOMAIN report : report[i].valid = "bad_amount"

\* update_all_positions on st, with the report get_account_info returned
SweepOn(st, balance, report, close_ok) ==
    Once1(LAMBDA updated :
              IF SweepAborts(report) THEN updated
              ELSE CheckClosures(updated, balance, KeyList(updated.pm), close_ok),
          UpdateReported(st, balance, report))

\* the two position maps as a call finds them, and an empty order log
Managers == [pm |-> pm_positions, rm |-> rm_positions, orders |-> <<>>]

\* update_all_positions, the whole call; info_ok is whether get_account_info
\* returns (its failure is caught and ends the sweep)
UpdateAllPositions(info_ok, report, close_ok) ==
    \E after \in {IF info_ok
                   THEN SweepOn(Managers, account_balance, report, close_ok)
                   ELSE Managers} :
        /\ pm_positions' = after.pm
        /\ rm_positions' = after.rm
        /\ orders' = after.orders
        /\ ret' = [op |-> "update_all_positions", info_ok |-> info_ok,
                   report |-> report]
        /\ UNCHANGED <<account_balance, initial_balance, daily_pnl_history,
                       dry_run, last_signals>>

\* _close_position called for one symbol
ClosePosition(symbol, exchange_ok) ==
    \E after \in {ClosePositionOn(Managers, symbol, exchange_ok)} :
        /\ pm_positions' = after.pm
        /\ rm_positions' = after.rm
        /\ orders' = after.orders
        /\ ret' = [op |-> "close_position", symbol |-> symbol]
        /\ UNCHANGED <<account_balance, initial_balance, daily_pnl_history,
                       dry_run, last_signals>>

\* what the exchange reports for one symbol: no position, or one entered at
\* 100: a long one marked at 100 (no P&L) or at 50 (a loss), or a short one
\* marked at 50 (a profit)
Reported(symbol, amount, mark) ==
    [symbol |-> symbol, positionAmt |-> amount, entryPrice |-> I(100),
     markPrice |-> mark, unRealizedProfit |-> RMul(RSub(mark, I(100)), amount),
     valid |-> "ok"]

ReportedFor(symbol) ==
    { Reported(symbol, Zero, I(100)), Reported(symbol, I(4), I(100)),
      Reported(symbol, I(4), I(50)), Reported(symbol, I(-4), I(50)) }

Reports == { <<d1, d2>> : d1 \in ReportedFor(SymbolList[1]),
                          d2 \in ReportedFor(SymbolList[2]) }

NoReport == <<>>
AllOk == [s \in Symbols |-> TRUE]

\* what the exchange reports for one symbol when an entry may be malformed:
\* a long position entered at 100 and marked at 100 or at 50, an entry whose
\* entryPrice is no number, or an entry whose positionAmt is no number
SweepReportedFor(symbol) ==
    { Reported(symbol, I(4), I(100)), Reported(symbol, I(4), I(50)),
      [Reported(symbol, I(4), I(50)) EXCEPT !.valid = "bad_price"],
      [Reported(symbol, I(4), I(50)) EXCEPT !.valid = "bad_amount"] }

SweepReports == { <<d1, d2>> : d1 \in SweepReportedFor(SymbolList[1]),
                               d2 \in SweepReportedFor(SymbolList[2]) }

\* A PositionManager whose sweeps receive reports with malformed entries and
\* whose closing orders may fail.
NextSweep ==
    /\ UNCHANGED engVars
    /\ \/ \E b \in Balances : SetAccountBalance(b)
       \/ \E r \in SweepReports, close_ok \in [Symbols -> BOOLEAN] :
              UpdateAllPositions(TRUE, r, close_ok)

SpecSweep == InitRisk /\ [][NextSweep]_vars

\* market_data.close[-1]
ClosePrices == {Zero, I(100)}

\* the signals a strategy hands over: a direction with an optional stop loss
OpenSignals ==
    { [signal |-> g, confidence |-> 80, stop_loss |-> sl]
      : g \in {"buy", "sell"}, sl \in {Zero, I(50)} }

\* A PositionManager and its RiskManager driven call by call.
Next ==
    /\ UNCHANGED engVars
    /\ \/ \E b \in Balances : SetAccountBalance(b)
       \/ \E s \in Symbols, g \in OpenSignals, c \in ClosePrices, ok \in BOOLEAN :
              OpenPosition(s, g, c, ok)
       \/ \E info_ok \in BOOLEAN :
              \E r \in (IF info_ok THEN Reports ELSE {NoReport}),
                 close_ok \in (IF info_ok THEN [Symbols -> BOOLEAN] ELSE {AllOk}) :
                  UpdateAllPositions(info_ok, r, close_ok)
       \/ \E s \in Symbols, ok \in BOOLEAN : ClosePosition(s, ok)

Spec == Init /\ [][Next]_vars

----------------------------------------------------------------------------
(* SignalProcessor.  signal_history and the two counters feed statistics   *)
(* only and are left out; TradeLogger.log_trade_signal only logs.          *)

\* config.trading_threshold, in hundredths (the default 0.3)
trading_threshold == 30

\* |difference| below which a repeated signal counts as unchanged (0.1)
UnchangedBelow == 10

\* _should_act_on_signal, were it not to look at the existing position
\* (a faulty variant, against which C3 is tested)
ShouldActOnSignalAnyPosition(last, balance, initial, positions, history, symbol, signal_result) ==
    IF signal_result.confidence < trading_threshold THEN FALSE
    ELSE IF /\ symbol \in DOMAIN last
            /\ last[symbol].signal = signal_result.signal
            /\ Abs(last[symbol].confidence - signal_result.confidence) < UnchangedBelow
    THEN FALSE
    ELSE CalculateRiskMetrics(balance, initial, positions, history).risk_level
            \notin {"high", "critical"}

\* _should_act_on_signal
ShouldActOnSignal(last, balance, initial, positions, history, symbol, signal_result) ==
    IF signal_result.confidence < trading_threshold THEN FALSE
    ELSE IF /\ symbol \in DOMAIN last
            /\ last[symbol].signal = signal_result.signal
            /\ Abs(last[symbol].confidence - signal_result.confidence) < UnchangedBelow
    THEN FALSE
    ELSE IF CalculateRiskMetrics(balance, initial, positions, history).risk_level
               \in {"high", "critical"}
    THEN FALSE
    ELSE IF symbol \in DOMAIN positions THEN FALSE
    ELSE TRUE

\* _should_act_on_signal, were it to reject the confidences above the
\* threshold (a faulty variant, against which C25 is tested)
ShouldActOnSignalAtAbove(threshold, last, balance, initial, positions, history, symbol, signal_result) ==
    IF signal_result.confidence > threshold THEN FALSE
    ELSE IF /\ symbol \in DOMAIN last
            /\ last[symbol].signal = signal_result.signal
            /\ Abs(last[symbol].confidence - signal_result.confidence) < UnchangedBelow
    THEN FALSE
    ELSE IF CalculateRiskMetrics(balance, initial, positions, history).risk_level
               \in {"high", "critical"}
    THEN FALSE
    ELSE IF symbol \in DOMAIN positions THEN FALSE
    ELSE TRUE

\* _should_act_on_signal of a SignalProcessor whose config.trading_threshold
\* is threshold
ShouldActOnSignalAt(threshold, last, balance, initial, positions, history, symbol, signal_result) ==
    IF signal_result.confidence < threshold THEN FALSE
    ELSE IF /\ symbol \in DOMAIN last
            /\ last[symbol].signal = signal_result.signal
            /\ Abs(last[symbol].confidence - signal_result.confidence) < UnchangedBelow
    THEN FALSE
    ELSE IF CalculateRiskMetrics(balance, initial, positions, history).risk_level
               \in {"high", "critical"}
    THEN FALSE
    ELSE IF symbol \in DOMAIN positions THEN FALSE
    ELSE TRUE

\* process_signal, the whole call.  An accepted signal goes to _execute_signal,
\* which logs and returns a dictionary describing the signal; it calls neither
\* the PositionManager nor the exchange.  last_signals is written on the path
\* of a rejected signal only (the accepted path returns before that line).
ProcessSignal(symbol, signal_result, current_price) ==
    \E act \in {ShouldActOnSignal(last_signals, account_balance, initial_balance,
                    rm_positions, daily_pnl_history, symbol, signal_result)} :
        /\ last_signals' = IF act THEN last_signals
                           ELSE Put(last_signals, symbol, signal_result)
        /\ ret' = [op |-> "process_signal", symbol |-> symbol,
                   signal |-> signal_result, close |-> current_price,
                   result |-> IF act THEN "executed" ELSE "none"]
        /\ orders' = <<>>
        /\ UNCHANGED <<rmVars, pm_positions, dry_run>>

Confidences == {20, 80, 85}

\* the non-Hold signals the signal loop hands to process_signal
Signals ==
    { [signal |-> g, confidence |-> c, stop_loss |-> Zero]
      : g \in {"buy", "sell"}, c \in Confidences }

AllFail == [s \in Symbols |-> FALSE]

\* reports that leave no position, one position without P&L, or two losing ones
SignalReports ==
    { <<Reported(SymbolList[1], Zero, I(100)), Reported(SymbolList[2], Zero, I(100))>>,
      <<Reported(SymbolList[1], I(4), I(100)), Reported(SymbolList[2], Zero, I(100))>>,
      <<Reported(SymbolList[1], I(4), I(50)), Reported(SymbolList[2], I(4), I(50))>> }

\* A SignalProcessor over a RiskManager whose state the monitoring sweeps and
\* the recorded P&L samples set.
InitSignal == Init /\ dry_run = FALSE

NextSignal ==
    /\ UNCHANGED engVars
    /\ \/ SetAccountBalance(I(1000))
       \/ UpdateDailyPnl(I(-400))
       \/ \E r \in SignalReports, close_ok \in {AllOk, AllFail} :
              UpdateAllPositions(TRUE, r, close_ok)
       \/ \E s \in Symbols, g \in Signals : ProcessSignal(s, g, I(100))

SpecSignal == InitSignal /\ [][NextSignal]_vars

\* the trading_threshold of the second SignalProcessor
higher_threshold == trading_threshold + 5

\* the signals handed to both processors: confidences below both thresholds,
\* between them, and above both
PairSignals ==
    { [signal |-> g, confidence |-> c, stop_loss |-> Zero]
      : g \in {"buy", "sell"}, c \in {29, 32, 36} }

\* process_signal of two SignalProcessors that share the RiskManager: the one
\* with trading_threshold, and the one with higher_threshold
ProcessSignalPair(symbol, signal_result) ==
    \E low \in {ShouldActOnSignalAt(trading_threshold, last_signals,
                     account_balance, initial_balance, rm_positions,
                     daily_pnl_history, symbol, signal_result)},
       high \in {ShouldActOnSignalAt(higher_threshold, twin_last_signals,
                     account_balance, initial_balance, rm_positions,
                     daily_pnl_history, symbol, signal_result)} :
        /\ last_signals' = IF low THEN last_signals
                           ELSE Put(last_signals, symbol, signal_result)
        /\ twin_last_signals' = IF high THEN twin_last_signals
                                ELSE Put(twin_last_signals, symbol, signal_result)
        /\ UNCHANGED <<stratVars, limVars, dataVars, taskVars>>
        /\ ret' = [op |-> "process_signal_pair", symbol |-> symbol,
                   signal |-> signal_result, low |-> low, high |-> high]
        /\ orders' = <<>>
        /\ UNCHANGED <<rmVars, pm_positions, dry_run>>

\* Two SignalProcessors handed one stream of signals, over a RiskManager whose
\* state the monitoring sweeps set.
NextThreshold ==
    /\ UNCHANGED <<loopVars, startVars>>
    /\ \/ SetAccountBalance(I(1000)) /\ UNCHANGED auxVars
       \/ \E r \in SignalReports :
              UpdateAllPositions(TRUE, r, AllOk) /\ UNCHANGED auxVars
       \/ \E s \in Symbols, g \in PairSignals : ProcessSignalPair(s, g)

SpecThreshold == InitSignal /\ [][NextThreshold]_vars

----------------------------------------------------------------------------
(* TradingEngine.  The engine runs its two loops as tasks of one event     *)
(* loop: a task runs until it suspends, and it suspends only where it      *)
(* awaits the exchange or sleeps.  Each action below is one such run: from *)
(* the return of an exchange call (or the end of a sleep) to the next      *)
(* exchange call (or sleep).  process_signal and _update_position await    *)
(* nothing, so a signal sweep, and the updates of a monitoring sweep, are  *)
(* single steps; open_position and _close_position suspend on place_order. *)
(* config.use_market_orders is False (its default), so stop() does not     *)
(* call _close_all_positions.                                              *)

\* while self.is_running
LoopContinuesRegardless(running) == TRUE

LoopContinues(running) == running

\* a strategy result the signal loop skips
Hold == [signal |-> "hold", confidence |-> 0, stop_loss |-> Zero]

\* the signal of a sweep, per symbol
SweepSignal == [signal |-> "buy", confidence |-> 80, stop_loss |-> Zero]
SweepSignals == [Symbols -> {Hold, SweepSignal}]

\* update_indicators or generate_signal raises for the symbol
StrategyError == [signal |-> "error", confidence |-> 0, stop_loss |-> Zero]

\* the sweeps in which the strategy raises for one symbol
FailingSweeps ==
    { [s \in Symbols |-> IF s = f THEN StrategyError ELSE SweepSignal]
      : f \in Symbols }

\* the elements of a list
Range(list) == {list[i] : i \in DOMAIN list}

\* _initialize_account after the balance is stored: set_leverage is called for
\* every symbol of the list as it is at that moment (a call that raises is
\* logged and the loop goes on); the result is the symbols called so far
InitializeAccountLeverage(called, symbols) == called \cup Range(symbols)

\* _initialize_symbols: the configured list, or the exchange's trading symbols
InitializeSymbols == SymbolList

\* start(): _initialize_account stores the balance and sets the leverages,
\* then _initialize_symbols fills symbols_to_trade; a failure in any of
\* _initialize_account, _initialize_symbols, _start_market_data_collection is
\* raised to the caller before any loop exists; otherwise both tasks are
\* created and is_running is set before either of them runs (start suspends
\* nowhere after creating them).
RECURSIVE SeedMarketData(_, _, _)
\* _start_market_data_collection: the window of every symbol is fetched and
\* stored
SeedMarketData(data, symbols, time) ==
    IF symbols = <<>> THEN data
    ELSE SeedMarketData(Put(data, Head(symbols), [fetched_at |-> time]),
                        Tail(symbols), time)

Start(outcome, balance) ==
    /\ sig_pc = "none" /\ mon_pc = "none"
    /\ IF outcome = "account_error"
       THEN UNCHANGED <<account_balance, initial_balance, leverage_calls>>
       ELSE /\ initial_balance' = IF initial_balance = Zero THEN balance
                                  ELSE initial_balance
            /\ account_balance' = balance
            /\ leverage_calls' =
                   InitializeAccountLeverage(leverage_calls, symbols_to_trade)
    /\ symbols_to_trade' = IF outcome \in {"account_error", "symbols_error"}
                           THEN symbols_to_trade ELSE InitializeSymbols
    /\ IF outcome = "started"
       THEN /\ is_running' = TRUE /\ sig_pc' = "ready" /\ mon_pc' = "ready"
            /\ market_data' = SeedMarketData(market_data, InitializeSymbols, now)
            /\ signal_loops' = signal_loops + 1
            /\ monitoring_loops' = monitoring_loops + 1
       ELSE UNCHANGED <<is_running, sig_pc, mon_pc, market_data, taskVars>>
    /\ ret' = [op |-> "start", outcome |-> outcome]
    /\ UNCHANGED <<twin_last_signals, stratVars, limVars, now>>
    /\ orders' = <<>>
    /\ UNCHANGED <<rm_positions, daily_pnl_history, pm_positions, dry_run,
                   last_signals, mon_call, opening>>

\* stop(): the flag is cleared
Stop ==
    /\ UNCHANGED <<startVars, auxVars>>
    /\ is_running
    /\ is_running' = FALSE
    /\ ret' = [op |-> "stop"]
    /\ orders' = <<>>
    /\ UNCHANGED <<rmVars, pm_positions, dry_run, last_signals,
                   sig_pc, mon_pc, mon_call, opening>>

RECURSIVE ProcessSignals(_, _, _)
\* the for loop of signal_loop: process_signal for every symbol whose signal is
\* not Hold; an exception of the strategy leaves the for loop for the except
\* clause of the while loop; the result is last_signals after the sweep
ProcessSignals(last, todo, signals) ==
    IF todo = <<>> THEN last
    ELSE IF signals[Head(todo)] = StrategyError THEN last
    ELSE LET symbol == Head(todo)
             act == ShouldActOnSignal(last, account_balance, initial_balance,
                        rm_positions, daily_pnl_history, symbol, signals[symbol])
             last1 == IF signals[symbol].signal = "hold" \/ act THEN last
                      ELSE Put(last, symbol, signals[symbol])
         IN  Once1(LAMBDA l : ProcessSignals(l, Tail(todo), signals), last1)

RECURSIVE ProcessedSymbols(_, _)
\* the symbols the for loop of signal_loop calls process_signal for, in order
ProcessedSymbols(todo, signals) ==
    IF todo = <<>> THEN <<>>
    ELSE IF signals[Head(todo)] = StrategyError THEN <<>>
    ELSE IF signals[Head(todo)].signal = "hold"
    THEN ProcessedSymbols(Tail(todo), signals)
    ELSE <<Head(todo)>> \o ProcessedSymbols(Tail(todo), signals)

\* signal_loop, one iteration: the flag is tested, and either the task ends or
\* it sweeps the symbols and sleeps (step "sweep"), or an exception takes it to
\* the except clause, where it sleeps (step "error")
SignalLoopStep(signals) ==
    /\ UNCHANGED <<startVars, twin_last_signals, stratVars, limVars, dataVars,
                   monitoring_loops>>
    /\ signal_loops' = IF LoopContinues(is_running) THEN signal_loops
                       ELSE signal_loops - 1
    /\ sig_pc = "ready"
    /\ IF LoopContinues(is_running)
       THEN /\ last_signals' = ProcessSignals(last_signals, SymbolList, signals)
            /\ sig_pc' = "ready"
            /\ ret' = IF \E s \in Symbols : signals[s] = StrategyError
                      THEN [op |-> "signal_loop", step |-> "error",
                            signals |-> signals,
                            processed |-> ProcessedSymbols(SymbolList, signals)]
                      ELSE [op |-> "signal_loop", step |-> "sweep",
                            windows |-> market_data, at |-> now]
       ELSE /\ sig_pc' = "done"
            /\ ret' = [op |-> "signal_loop", step |-> "exit"]
            /\ UNCHANGED last_signals
    /\ orders' = <<>>
    /\ UNCHANGED <<rmVars, pm_positions, dry_run, is_running, mon_pc, mon_call, opening>>

RECURSIVE SkipToClosure(_, _, _, _)
\* _check_position_closures up to its next order call: the symbols not yet
\* looked at, from the first one that is to be closed
SkipToClosure(pm, rm, balance, todo) ==
    IF todo = <<>> THEN <<>>
    ELSE IF /\ ShouldClosePosition(balance, rm, Head(todo)).close
            /\ ~dry_run
            /\ Head(todo) \in DOMAIN pm
    THEN todo
    ELSE SkipToClosure(pm, rm, balance, Tail(todo))

\* the order _close_position places for the first symbol of todo
ClosingCall(pm, todo) ==
    [op |-> "place_order", symbol |-> Head(todo),
     side |-> IF RGt(pm[Head(todo)].size, Zero) THEN "SELL" ELSE "BUY",
     quantity |-> RAbs(pm[Head(todo)].size),
     rest |-> Tail(todo)]

\* monitoring_loop after update_all_positions returned: a Critical risk level
\* calls _close_all_positions, which suspends on get_open_orders
AfterSweep(rm) ==
    IF CalculateRiskMetrics(account_balance, initial_balance, rm,
                            daily_pnl_history).risk_level = "critical"
    THEN "open_orders" ELSE "ready"

\* monitoring_loop: the flag is tested, and either the task ends or
\* update_all_positions calls get_account_info
MonitorWake ==
    /\ UNCHANGED <<startVars, twin_last_signals, stratVars, limVars, dataVars,
                   signal_loops>>
    /\ monitoring_loops' = IF LoopContinues(is_running) THEN monitoring_loops
                           ELSE monitoring_loops - 1
    /\ mon_pc = "ready"
    /\ mon_pc' = IF LoopContinues(is_running) THEN "account_info" ELSE "done"
    /\ ret' = [op |-> "monitoring_loop",
               step |-> IF LoopContinues(is_running) THEN "wake" ELSE "exit"]
    /\ orders' = <<>>
    /\ UNCHANGED <<rmVars, pm_positions, dry_run, last_signals,
                   is_running, sig_pc, mon_call, opening>>

\* the monitoring loop moves on after its closures: to the next order call, or
\* out of the sweep
MonitorContinue(pm, rm, todo) ==
    \E next \in {SkipToClosure(pm, rm, account_balance, todo)} :
        IF next # <<>>
        THEN mon_pc' = "closing" /\ mon_call' = ClosingCall(pm, next)
        ELSE mon_pc' = AfterSweep(rm) /\ mon_call' = Idle

\* error codes of the exchange: an invalid API key or missing permission, and
\* an unknown symbol; NoError stands for a response of status 200
NoError == 0

AuthErrorCode == 0 - 2015

InvalidSymbolCode == 0 - 1121

ErrorCodes == {AuthErrorCode, InvalidSymbolCode}

\* _make_request: the exception raised for a response whose status is not 200
RaisedFor(error_code) ==
    IF error_code = 0 - 1021 THEN "APIError"
    ELSE IF error_code = 0 - 2010 THEN "InsufficientFundsError"
    ELSE IF error_code = InvalidSymbolCode THEN "InvalidSymbolError"
    ELSE "APIError"

\* get_account_info returns (or raises): the reported positions are stored,
\* and the closures begin
MonitorAccountInfo(info_ok, error_code, report) ==
    /\ UNCHANGED <<startVars, auxVars>>
    /\ mon_pc = "account_info"
    /\ \E after \in {IF info_ok
                      THEN UpdateReported(Managers, account_balance, report)
                      ELSE Managers} :
           /\ pm_positions' = after.pm
           /\ rm_positions' = after.rm
           /\ MonitorContinue(after.pm, after.rm,
                              IF info_ok /\ ~SweepAborts(report)
                              THEN KeyList(after.pm) ELSE <<>>)
    /\ ret' = [op |-> "monitoring_loop", step |-> "account_info",
               error_code |-> error_code,
               raised |-> IF info_ok THEN "none" ELSE RaisedFor(error_code)]
    /\ orders' = <<>>
    /\ UNCHANGED <<account_balance, initial_balance, daily_pnl_history, dry_run,
                   last_signals, is_running, sig_pc, opening>>

\* the order of _close_position returns (or raises): the symbol is removed
\* from both maps if it returned, and the closures go on
MonitorOrderReturn(exchange_ok) ==
    /\ UNCHANGED <<startVars, auxVars>>
    /\ mon_pc = "closing"
    /\ orders' = <<Order(mon_call.symbol, mon_call.side, mon_call.quantity, exchange_ok)>>
    /\ \E pm \in {IF exchange_ok THEN Del(pm_positions, mon_call.symbol) ELSE pm_positions},
          rm \in {IF exchange_ok THEN Del(rm_positions, mon_call.symbol) ELSE rm_positions} :
           /\ pm_positions' = pm
           /\ rm_positions' = rm
           /\ MonitorContinue(pm, rm, mon_call.rest)
    /\ ret' = [op |-> "monitoring_loop", step |-> "order"]
    /\ UNCHANGED <<account_balance, initial_balance, daily_pnl_history, dry_run,
                   last_signals, is_running, sig_pc, opening>>

\* _close_all_positions from get_open_orders on: the open orders are cancelled
\* one by one; an error ends it; the positions are not touched
MonitorCloseAll(exchange_ok) ==
    /\ UNCHANGED <<startVars, auxVars>>
    /\ mon_pc = "open_orders"
    /\ mon_pc' = "ready"
    /\ ret' = [op |-> "close_all_positions", ok |-> exchange_ok]
    /\ orders' = <<>>
    /\ UNCHANGED <<rmVars, pm_positions, dry_run, last_signals,
                   is_running, sig_pc, mon_call, opening>>

\* open_position up to its order call, called by a task of the event loop (the
\* signal loop itself never calls it, see C8)
OpenCall(symbol, signal_result, current_price) ==
    /\ UNCHANGED <<startVars, auxVars>>
    /\ is_running
    /\ opening = Idle
    /\ ~dry_run
    /\ \E decision \in {OpenDecision(account_balance, initial_balance, rm_positions,
                           daily_pnl_history, symbol, signal_result, current_price)} :
           IF decision.place
           THEN /\ opening' = [op |-> "place_order", symbol |-> symbol,
                               signal |-> signal_result, close |-> current_price,
                               decision |-> decision]
                /\ ret' = [op |-> "open_position", symbol |-> symbol,
                           signal |-> signal_result, close |-> current_price,
                           result |-> "suspended"]
           ELSE /\ opening' = Idle
                /\ ret' = [op |-> "open_position", symbol |-> symbol,
                           signal |-> signal_result, close |-> current_price,
                           result |-> "none"]
    /\ orders' = <<>>
    /\ UNCHANGED <<rmVars, pm_positions, dry_run, last_signals,
                   is_running, sig_pc, mon_pc, mon_call>>

\* open_position from the return of its order call on
OpenReturn(exchange_ok) ==
    /\ UNCHANGED <<startVars, auxVars>>
    /\ opening # Idle
    /\ orders' = <<Order(opening.symbol, opening.decision.side,
                         opening.decision.position_size, exchange_ok)>>
    /\ pm_positions' = IF exchange_ok
                       THEN Put(pm_positions, opening.symbol,
                                OpenedTracked(opening.decision, opening.close))
                       ELSE pm_positions
    /\ rm_positions' = IF exchange_ok
                       THEN Put(rm_positions, opening.symbol,
                                OpenedRisk(opening.decision, opening.close))
                       ELSE rm_positions
    /\ opening' = Idle
    /\ ret' = [op |-> "open_position", symbol |-> opening.symbol,
               signal |-> opening.signal, close |-> opening.close,
               result |-> IF exchange_ok THEN "order" ELSE "none"]
    /\ UNCHANGED <<account_balance, initial_balance, daily_pnl_history, dry_run,
                   last_signals, is_running, sig_pc, mon_pc, mon_call>>

\* update_daily_pnl, called from outside the engine (the engine never calls it)
RecordDailyPnl ==
    UpdateDailyPnl(I(-400)) /\ UNCHANGED engVars

InitEngine == Init /\ dry_run = FALSE

\* how a call of start() ends
StartOutcomes == {"account_error", "symbols_error", "data_error", "started"}

SignalLoop == \E signals \in SweepSignals : SignalLoopStep(signals)

\* the monitoring loop, its failing exchange calls raising for one of `codes`
MonitoringLoopWith(codes) ==
    \/ MonitorWake
    \/ \E info_ok \in BOOLEAN :
           \E error_code \in (IF info_ok THEN {NoError} ELSE codes) :
               \E r \in (IF info_ok THEN SignalReports ELSE {NoReport}) :
                   MonitorAccountInfo(info_ok, error_code, r)
    \/ \E ok \in BOOLEAN : MonitorOrderReturn(ok)
    \/ \E ok \in BOOLEAN : MonitorCloseAll(ok)

MonitoringLoop == MonitoringLoopWith({InvalidSymbolCode})

NextEngine ==
    \/ \E outcome \in StartOutcomes : Start(outcome, I(1000))
    \/ Stop
    \/ SignalLoop
    \/ MonitoringLoop
    \/ \E s \in Symbols : OpenCall(s, SweepSignal, I(100))
    \/ \E ok \in BOOLEAN : OpenReturn(ok)
    \/ RecordDailyPnl

SpecEngine == InitEngine /\ [][NextEngine]_vars

\* The engine with the failures of its sweeps told apart: a strategy call
\* that raises for one symbol, and the error codes of a failing exchange call.
NextFaults ==
    \/ \E outcome \in StartOutcomes : Start(outcome, I(1000))
    \/ Stop
    \/ \E signals \in SweepSignals \cup FailingSweeps : SignalLoopStep(signals)
    \/ MonitoringLoopWith(ErrorCodes)
    \/ \E s \in Symbols : OpenCall(s, SweepSignal, I(100))
    \/ \E ok \in BOOLEAN : OpenReturn(ok)
    \/ RecordDailyPnl

SpecFaults == InitEngine /\ [][NextFaults]_vars

\* The engine with both loops scheduled fairly and every exchange call of a
\* loop answered.
SpecEngineFair ==
    /\ InitEngine
    /\ [][NextEngine]_vars
    /\ WF_vars(SignalLoop)
    /\ WF_vars(MonitoringLoop)

----------------------------------------------------------------------------
C2_ViolatedChecksReported ==
    (ret.op = "check_risk_limits" /\ RGt(account_balance, Zero)) =>
        LET r == ret.result
            count == Cardinality(DOMAIN rm_positions)
            tracked == ret.symbol \in DOMAIN rm_positions
            notional == RMul(ret.size, rm_positions[ret.symbol].current_price)
            exposure == SumExposure(rm_positions, DOMAIN rm_positions)
        IN  /\ r.ok <=> r.violations = {}
            /\ "max_positions" \in r.violations <=> count >= max_positions
            /\ count >= max_positions => ~r.ok
            /\ "daily_loss" \in r.violations <=>
                   RLt(CalculateDailyPnl(daily_pnl_history),
                       RNeg(RMul(account_balance, max_daily_loss)))
            /\ "drawdown" \in r.violations <=>
                   RGt(CalculateDrawdown(account_balance, initial_balance, rm_positions),
                       max_drawdown)
            /\ tracked =>
                 /\ "position_size" \in r.violations <=>
                        RGt(notional, RMul(account_balance, max_position_size))
                 /\ "total_exposure" \in r.violations <=>
                        RGt(RAdd(exposure, notional),
                            RMul(account_balance, max_total_exposure))

\* what the code does report: the same, with the candidate's notional taken
\* as 0 (the price _get_current_price returns)
C2_ReportedWithLookupPrice ==
    ret.op = "check_risk_limits" =>
        LET r == ret.result
            count == Cardinality(DOMAIN rm_positions)
            exposure == SumExposure(rm_positions, DOMAIN rm_positions)
        IN  /\ r.ok <=> r.violations = {}
            /\ "max_positions" \in r.violations <=> count >= max_positions
            /\ "daily_loss" \in r.violations <=>
                   RLt(CalculateDailyPnl(daily_pnl_history),
                       RNeg(RMul(account_balance, max_daily_loss)))
            /\ "drawdown" \in r.violations <=>
                   RGt(CalculateDrawdown(account_balance, initial_balance, rm_positions),
                       max_drawdown)
            /\ "position_size" \in r.violations <=>
                   RGt(Zero, RMul(account_balance, max_position_size))
            /\ "total_exposure" \in r.violations <=>
                   RGt(exposure, RMul(account_balance, max_total_exposure))

(* C3: the gate lets a signal through if and only if none of the four      *)
(* rejections applies: confidence below the threshold; a last recorded     *)
(* signal of the same direction whose confidence differs by less than 0.1; *)
(* an aggregate risk level of High or Critical; a position already held    *)
(* for the symbol.  The call never raises: it yields a verdict every time. *)
C3_GateIffNoRejection ==
    [][ret'.op = "process_signal" =>
        LET s == ret'.symbol
            g == ret'.signal
            lowConfidence == g.confidence < trading_threshold
            unchanged == /\ s \in DOMAIN last_signals
                         /\ last_signals[s].signal = g.signal
                         /\ last_signals[s].confidence - g.confidence < UnchangedBelow
                         /\ g.confidence - last_signals[s].confidence < UnchangedBelow
            level == RiskLevelOf(CalculateRiskScore(account_balance,
                         SumExposure(rm_positions, DOMAIN rm_positions),
                         CalculateDailyPnl(daily_pnl_history),
                         CalculateDrawdown(account_balance, initial_balance, rm_positions)))
            tooRisky == level = "high" \/ level = "critical"
            held == s \in DOMAIN rm_positions
        IN  /\ ret'.result \in {"executed", "none"}
            /\ ret'.result = "executed" <=>
                   ~(lowConfidence \/ unchanged \/ tooRisky \/ held)
    ]_vars

\* a signal passed the gate while another symbol's position was held
C3_Witness ==
    /\ ret.op = "process_signal"
    /\ ret.result = "executed"
    /\ rm_positions # EmptyMap

(* C4: open_position (not dry-run) never raises and records a position if  *)
(* and only if the sizing succeeded, check_risk_limits reported no         *)
(* violation and the exchange's order call returned: then both maps hold   *)
(* the symbol with entry = the current close, unrealized P&L = 0 and the   *)
(* computed size, positive for Buy and negative for Sell; otherwise it     *)
(* returns none, places no further order and leaves both maps unchanged.   *)
C4_OpenRecordsIffAllSucceed ==
    [][(ret'.op = "open_position" /\ ~dry_run) =>
        LET s == ret'.symbol
            g == ret'.signal
            c == ret'.close
            stop == IF g.stop_loss # Zero THEN g.stop_loss
                    ELSE IF g.signal = "buy" THEN RMul(c, Rat(98, 100))
                    ELSE RMul(c, Rat(102, 100))
            sizing == CalculatePositionSize(account_balance, c, stop, Rat(2, 100))
            limits == CheckRiskLimits(account_balance, initial_balance, rm_positions,
                                      daily_pnl_history, sizing.value, s)
            allowed == sizing.status = "ok" /\ limits.ok
            signed == IF g.signal = "buy" THEN sizing.value ELSE RNeg(sizing.value)
        IN  /\ allowed <=> orders' # <<>>
            /\ allowed =>
                 /\ Len(orders') = 1
                 /\ orders'[1].symbol = s
                 /\ orders'[1].side = (IF g.signal = "buy" THEN "BUY" ELSE "SELL")
                 /\ orders'[1].quantity = sizing.value
            /\ IF allowed /\ orders'[1].ok
               THEN /\ ret'.result = "order"
                    /\ s \in DOMAIN pm_positions' /\ s \in DOMAIN rm_positions'
                    /\ pm_positions'[s].size = signed
                    /\ pm_positions'[s].entry_price = c
                    /\ pm_positions'[s].unrealized_pnl = Zero
                    /\ rm_positions'[s].position_size = signed
                    /\ rm_positions'[s].entry_price = c
                    /\ rm_positions'[s].unrealized_pnl = Zero
                    /\ Del(pm_positions', s) = Del(pm_positions, s)
                    /\ Del(rm_positions', s) = Del(rm_positions, s)
               ELSE /\ ret'.result = "none"
                    /\ UNCHANGED <<pm_positions, rm_positions>>
    ]_vars

\* a position was opened and recorded
C4_Witness ==
    /\ ret.op = "open_position"
    /\ ret.result = "order"
    /\ ~dry_run
    /\ ret.symbol \in DOMAIN pm_positions

(* C5: closing a tracked position (not dry-run) issues exactly one market  *)
(* order, on the opposite side (SELL for a positive tracked size, BUY for  *)
(* a negative one) and for the absolute tracked size; the symbol leaves    *)
(* both maps only when that order call returned, and stays in both when it *)
(* failed.  The closures of a sweep obey the same rule.                    *)
C5_CloseOrdersThenRemoves ==
    [][~dry_run =>
        /\ (ret'.op = "close_position" /\ ret'.symbol \in DOMAIN pm_positions) =>
              LET s == ret'.symbol
                  size == pm_positions[s].size
              IN  /\ Len(orders') = 1
                  /\ orders'[1].symbol = s
                  /\ orders'[1].side = (IF RGt(size, Zero) THEN "SELL" ELSE "BUY")
                  /\ orders'[1].quantity = RAbs(size)
                  /\ IF orders'[1].ok
                     THEN s \notin DOMAIN pm_positions' /\ s \notin DOMAIN rm_positions'
                     ELSE UNCHANGED <<pm_positions, rm_positions>>
        /\ ret'.op = "update_all_positions" =>
              /\ \A i, j \in DOMAIN orders' :
                     orders'[i].symbol = orders'[j].symbol => i = j
              /\ \A i \in DOMAIN orders' :
                     LET s == orders'[i].symbol IN
                     IF orders'[i].ok
                     THEN s \notin DOMAIN pm_positions' /\ s \notin DOMAIN rm_positions'
                     ELSE /\ s \in DOMAIN pm_positions' /\ s \in DOMAIN rm_positions'
                          /\ orders'[i].quantity = RAbs(pm_positions'[s].size)
                          /\ orders'[i].side =
                                 (IF RGt(pm_positions'[s].size, Zero) THEN "SELL" ELSE "BUY")
              /\ \A s \in DOMAIN pm_positions \ DOMAIN pm_positions' :
                     \E i \in DOMAIN orders' : orders'[i].symbol = s /\ orders'[i].ok
    ]_vars

\* a short position was closed by a BUY order
C5_Witness ==
    /\ ret.op = "close_position"
    /\ ~dry_run
    /\ Len(orders) = 1
    /\ orders[1].ok /\ orders[1].side = "BUY"
    /\ ret.symbol \notin DOMAIN pm_positions

(* C6: after every sweep, open and close, each symbol has at most one      *)
(* PositionRisk and one tracked position, the two maps hold the same       *)
(* symbols with the same signed size, and the position_count of            *)
(* calculate_risk_metrics is the number of PositionRisk entries.           *)
C6_MapsAgree ==
    /\ DOMAIN pm_positions = DOMAIN rm_positions
    /\ DOMAIN pm_positions \subseteq Symbols
    /\ \A s \in DOMAIN pm_positions :
           pm_positions[s].size = rm_positions[s].position_size
    /\ CalculateRiskMetrics(account_balance, initial_balance, rm_positions,
                            daily_pnl_history).position_count
           = Cardinality(DOMAIN pm_positions)

\* a sweep has left two positions tracked
C6_Witness ==
    /\ ret.op = "update_all_positions"
    /\ Cardinality(DOMAIN pm_positions) = 2
    /\ Cardinality(DOMAIN rm_positions) = 2

C8_AcceptedSignalPlacesOrder ==
    (/\ ret.op = "process_signal"
     /\ ret.result = "executed"
     /\ ~dry_run
     /\ OpenDecision(account_balance, initial_balance, rm_positions,
                     daily_pnl_history, ret.symbol, ret.signal, ret.close).place)
    => /\ orders # <<>>
       /\ orders[1].symbol = ret.symbol

(* C9: when the risk level is Critical after a monitoring sweep the engine *)
(* flattens: once the flatten has completed successfully no tracked        *)
(* position and no PositionRisk remains.                                   *)
C9_FlattenLeavesNothing ==
    [][(mon_pc = "open_orders" /\ ret'.op = "close_all_positions" /\ ret'.ok) =>
        /\ pm_positions' = EmptyMap
        /\ rm_positions' = EmptyMap
    ]_vars

(* C10: once stop() has cleared the running flag, each loop sees it at its *)
(* next test of the flag, starts no new sweep and ends: with both loops    *)
(* scheduled fairly and exchange calls that return, both loops exit.       *)
C10_LoopsExitAfterStop ==
    /\ [][(~is_running /\ sig_pc # "none") =>
            /\ ret'.op = "signal_loop" =>
                   ret'.step = "exit" /\ sig_pc' = "done"
            /\ (ret'.op = "monitoring_loop" /\ mon_pc = "ready") =>
                   ret'.step = "exit" /\ mon_pc' = "done"
            /\ sig_pc = "done" => sig_pc' = "done"
            /\ mon_pc = "done" => mon_pc' = "done"
            /\ ~is_running'
         ]_vars
    /\ (~is_running /\ sig_pc # "none") ~> (sig_pc = "done" /\ mon_pc = "done")

\* both loops have ended after a stop that found the monitoring loop in a sweep
C10_Witness ==
    /\ ~is_running
    /\ sig_pc = "done"
    /\ mon_pc = "done"
    /\ rm_positions # EmptyMap

----------------------------------------------------------------------------
(* C11: start() fetches the balance, resolves the symbol universe, attempts *)
(* set_leverage for every symbol of the resolved universe, seeds the market *)
(* data, launches the two loops and marks the engine running, in this      *)
(* order: once the loops exist (so before any sweep of either loop),       *)
(* set_leverage has been called for every symbol of symbols_to_trade.      *)
(* The code runs the set_leverage loop inside _initialize_account, before  *)
(* _initialize_symbols has filled symbols_to_trade, so the loop of a first *)
(* start() goes over the empty list.                                       *)
C11_LeverageSetBeforeLoops ==
    sig_pc # "none" => Range(symbols_to_trade) \subseteq leverage_calls

----------------------------------------------------------------------------
(* C12: in dry-run mode no call places an order, whatever open_position    *)
(* calls, closing calls and monitoring sweeps are made: open_position      *)
(* returns the synthetic filled acknowledgement and records nothing, and   *)
(* closing a position only logs, so it leaves both position maps as they   *)
(* are.                                                                    *)
C12_DryRunPlacesNoOrder ==
    [][dry_run =>
         /\ orders' = <<>>
         /\ ret'.op = "open_position" =>
                /\ ret'.result = "dry_run"
                /\ UNCHANGED <<pm_positions, rm_positions>>
         /\ ret'.op = "close_position" =>
                UNCHANGED <<pm_positions, rm_positions>>]_vars

\* a dry-run monitoring sweep has found a tracked position that is to be
\* closed, and has left it in place
C12_Witness ==
    /\ dry_run
    /\ ret.op = "update_all_positions"
    /\ \E s \in DOMAIN pm_positions :
           ShouldClosePosition(account_balance, rm_positions, s).close

----------------------------------------------------------------------------
----------------------------------------------------------------------------
(* C14: the stop loss fires when the loss reaches 2% of the balance: for   *)
(* the long position of size 0.1 entered at 50,000, price-updated to       *)
(* 48,000 with balance 10,000 (unrealized P&L -200, exactly 2% of the      *)
(* balance), should_close_position returns (true, "Stop loss triggered").  *)
(* The code compares with a strict <, so at exactly 2% it returns (false,  *)
(* "Position within risk limits").                                         *)
C14_StopLossAtTwoPercent ==
    (/\ ret.op = "should_close_position"
     /\ ret.symbol \in DOMAIN rm_positions
     /\ account_balance = I(10000)
     /\ rm_positions[ret.symbol].position_size = Rat(1, 10)
     /\ rm_positions[ret.symbol].entry_price = I(50000)
     /\ rm_positions[ret.symbol].current_price = I(48000)
     /\ rm_positions[ret.symbol].unrealized_pnl = I(-200))
    => ret.result = [close |-> TRUE, reason |-> "Stop loss triggered"]

----------------------------------------------------------------------------
(* C15: in every reachable RiskManager state (any balance set, any long or *)
(* short positions added and price-updated) the drawdown computed by       *)
(* _calculate_drawdown lies in [0, 1], and it is 0 whenever the current    *)
(* equity (balance plus the unrealized P&L of all positions) is at least   *)
(* the initial balance.  The code does not bound the quotient: an equity   *)
(* below zero gives a drawdown above 1.                                    *)
C15_DrawdownInUnitInterval ==
    LET drawdown == CalculateDrawdown(account_balance, initial_balance, rm_positions)
        equity == RAdd(account_balance,
                       SumUnrealized(rm_positions, DOMAIN rm_positions))
    IN  /\ RGe(drawdown, Zero)
        /\ RLe(drawdown, I(1))
        /\ RGe(equity, initial_balance) => drawdown = Zero

----------------------------------------------------------------------------
(* C16: in every reachable RiskManager state, short (negative-size)        *)
(* positions included, calculate_risk_metrics returns a risk_score in      *)
(* [0, 100] that equals min(100, min(30, exposure_ratio*100) + min(30,     *)
(* negative-daily-P&L-ratio*100) + min(40, drawdown*100)), and risk_level  *)
(* is Low iff score < 30, Medium iff 30 <= score < 60, High iff 60 <=      *)
(* score < 80, Critical iff score >= 80.  The code sums size times price   *)
(* with the sign of the size, so a short position lowers the exposure term *)
(* below zero and the score with it.                                       *)
C16_ScoreAsStated ==
    LET metrics == CalculateRiskMetrics(account_balance, initial_balance,
                                        rm_positions, daily_pnl_history)
        score == metrics.risk_score
        ratio(x) == IF RGt(account_balance, Zero) THEN RDiv(x, account_balance)
                    ELSE Zero
        exposure == RMin(I(30), RMul(ratio(metrics.total_exposure), I(100)))
        loss == IF RLt(metrics.daily_pnl, Zero)
                THEN RMin(I(30), RMul(ratio(RNeg(metrics.daily_pnl)), I(100)))
                ELSE Zero
        drawdown == RMin(I(40), RMul(metrics.max_drawdown, I(100)))
    IN  /\ score = RMin(I(100), RAdd(RAdd(exposure, loss), drawdown))
        /\ metrics.risk_level = "low" <=> RLt(score, I(30))
        /\ metrics.risk_level = "medium" <=> RGe(score, I(30)) /\ RLt(score, I(60))
        /\ metrics.risk_level = "high" <=> RGe(score, I(60)) /\ RLt(score, I(80))
        /\ metrics.risk_level = "critical" <=> RGe(score, I(80))

C16_ScoreInRange ==
    LET score == CalculateRiskMetrics(account_balance, initial_balance,
                     rm_positions, daily_pnl_history).risk_score
    IN  /\ C16_ScoreAsStated
        /\ RGe(score, Zero)
        /\ RLe(score, I(100))

----------------------------------------------------------------------------
(* C17: calculate_position_size fails with RiskManagementError when        *)
(* entry <= 0 or stop_loss <= 0 or |entry - stop_loss| = 0, and otherwise  *)
(* fails with InsufficientFundsError when the capped size is below 0.001   *)
(* (as it is for a balance of 0); a failing call leaves the balance, the   *)
(* initial balance, the position map and the P&L history as they were.     *)
C17_SizingFailures ==
    [][ret'.op = "calculate_position_size" =>
         LET entry == ret'.entry_price
             stop == ret'.stop_loss_price
             invalid == \/ RLe(entry, Zero)
                        \/ RLe(stop, Zero)
                        \/ RAbs(RSub(entry, stop)) = Zero
             capped == RMin(RDiv(RMul(account_balance, ret'.risk_percentage),
                                 RAbs(RSub(entry, stop))),
                            RDiv(RMul(account_balance, max_position_size), entry))
         IN  /\ invalid => ret'.result.status = "RiskManagementError"
             /\ ~invalid /\ RLt(capped, Rat(1, 1000)) =>
                    ret'.result.status = "InsufficientFundsError"
             /\ ~invalid /\ account_balance = Zero =>
                    ret'.result.status = "InsufficientFundsError"
             /\ ret'.result.status # "ok" => UNCHANGED rmVars]_vars

\* a call with valid prices has failed for a balance of 0, after positions
\* and P&L samples were recorded
C17_Witness ==
    /\ ret.op = "calculate_position_size"
    /\ ret.result.status = "InsufficientFundsError"
    /\ account_balance = Zero
    /\ rm_positions # EmptyMap
    /\ daily_pnl_history # <<>>

----------------------------------------------------------------------------
----------------------------------------------------------------------------
(* C19: check_risk_limits reports "Position size exceeds maximum allowed"  *)
(* and ok = false whenever the candidate's notional (its size times the    *)
(* symbol's current price, here the current price of the symbol's tracked  *)
(* position) exceeds balance * max_position_size; in particular a          *)
(* candidate of 0.2 with balance 10,000, max_position_size 0.1 and no      *)
(* other positions is rejected with that violation.  The code multiplies   *)
(* the size by _get_current_price, which returns 0.0, so the notional it   *)
(* compares is always 0.                                                   *)
C19_OversizedCandidateRejected ==
    ret.op = "check_risk_limits" =>
        LET rejected == /\ ~ret.result.ok
                        /\ "position_size" \in ret.result.violations
        IN  /\ (/\ ret.symbol \in DOMAIN rm_positions
                 /\ RGt(RMul(ret.size, rm_positions[ret.symbol].current_price),
                         RMul(account_balance, max_position_size)))
                => rejected
            /\ (/\ account_balance = I(10000)
                 /\ ret.size = Rat(2, 10)
                 /\ rm_positions = EmptyMap)
                => rejected

----------------------------------------------------------------------------
(* C20: check_risk_limits is idempotent and free of side effects: a call   *)
(* leaves the balance, the initial balance, the position map and the daily *)
(* P&L history unchanged, and two calls in a row with the same candidate   *)
(* return the same verdict and the same list of violations.                *)
C20_CheckIsIdempotent ==
    [][/\ ret'.op = "check_risk_limits" => UNCHANGED rmVars
       /\ ret'.op = "check_risk_limits_twice" =>
              /\ UNCHANGED rmVars
              /\ ret'.second.ok = ret'.first.ok
              /\ ret'.second.violations = ret'.first.violations]_vars

\* a candidate was refused twice in a row, with a position tracked and a
\* P&L sample recorded
C20_Witness ==
    /\ ret.op = "check_risk_limits_twice"
    /\ ~ret.first.ok
    /\ ~ret.second.ok
    /\ rm_positions # EmptyMap
    /\ daily_pnl_history # <<>>

----------------------------------------------------------------------------
(* C21, as stated: for any RiskManager state and any PositionRisk p, one   *)
(* whose symbol is already tracked included, add_position(p) immediately   *)
(* followed by remove_position(p.symbol) restores the position count and   *)
(* the total exposure to their values before the add.                      *)
C21_RoundTripRestores ==
    [][ret'.op = "add_then_remove" =>
         /\ Cardinality(DOMAIN rm_positions') = Cardinality(DOMAIN rm_positions)
         /\ CalculateTotalExposure(rm_positions')
                = CalculateTotalExposure(rm_positions)]_vars

(* C21, as the code has it: add_position(p) immediately followed by        *)
(* remove_position(p.symbol) restores the position map, so the count and   *)
(* the total exposure, when p.symbol was not tracked before the add; when  *)
(* it was tracked, add_position has replaced the earlier entry and the     *)
(* pair leaves the map without it: the count is one less and the exposure  *)
(* is less by the earlier entry's size times its current price.            *)
C21_RoundTripOfUntracked ==
    [][ret'.op = "add_then_remove" =>
         IF ret'.symbol \notin DOMAIN rm_positions
         THEN /\ rm_positions' = rm_positions
              /\ Cardinality(DOMAIN rm_positions') = Cardinality(DOMAIN rm_positions)
              /\ CalculateTotalExposure(rm_positions')
                     = CalculateTotalExposure(rm_positions)
         ELSE /\ Cardinality(DOMAIN rm_positions')
                     = Cardinality(DOMAIN rm_positions) - 1
              /\ CalculateTotalExposure(rm_positions')
                     = RSub(CalculateTotalExposure(rm_positions),
                            RMul(rm_positions[ret'.symbol].position_size,
                                 rm_positions[ret'.symbol].current_price))]_vars

\* a position was added and removed for an untracked symbol while another
\* symbol is tracked
C21_Witness ==
    /\ ret.op = "add_then_remove"
    /\ ret.symbol \notin DOMAIN rm_positions
    /\ rm_positions # EmptyMap

----------------------------------------------------------------------------
(* C22: across any sequence of set_account_balance calls, a first value of *)
(* 0 included, initial_balance is the balance of the first call and no     *)
(* later call overwrites it: a call made after another call leaves         *)
(* initial_balance as it is.  The code takes initial_balance = 0 for "not  *)
(* set yet", so after a first call with 0 the next call overwrites it.     *)
C22_InitialBalanceFixedByFirstCall ==
    [][(ret.op = "set_account_balance" /\ ret'.op = "set_account_balance")
         => initial_balance' = initial_balance]_vars

----------------------------------------------------------------------------
(* C23: update_position(symbol, price) on a tracked symbol sets            *)
(* current_price = price, unrealized_pnl = (price - entry) * size for a    *)
(* size > 0 and (entry - price) * |size| for a size < 0, and               *)
(* risk_percentage = |unrealized_pnl| / balance, and it returns; it        *)
(* changes no other position, nor the balance or the P&L history, and is a *)
(* no-op for an untracked symbol.  With a balance of zero (a RiskManager   *)
(* before its first set_account_balance, or an emptied account) the code   *)
(* divides by zero after it has assigned the price and the P&L.            *)
C23_UpdateRecomputes ==
    [][ret'.op = "update_position" =>
         /\ UNCHANGED <<account_balance, initial_balance, daily_pnl_history>>
         /\ DOMAIN rm_positions' = DOMAIN rm_positions
         /\ \A s \in DOMAIN rm_positions \ {ret'.symbol} :
                rm_positions'[s] = rm_positions[s]
         /\ ret'.symbol \in DOMAIN rm_positions =>
                LET before == rm_positions[ret'.symbol]
                    after == rm_positions'[ret'.symbol]
                    size == before.position_size
                    price == ret'.current_price
                IN  /\ ~ret'.raised
                    /\ after.current_price = price
                    /\ after.position_size = size
                    /\ after.entry_price = before.entry_price
                    /\ RGt(size, Zero) =>
                           after.unrealized_pnl
                              = RMul(RSub(price, before.entry_price), size)
                    /\ RLt(size, Zero) =>
                           after.unrealized_pnl
                              = RMul(RSub(before.entry_price, price), RAbs(size))
                    /\ RMul(after.risk_percentage, account_balance)
                           = RAbs(after.unrealized_pnl)]_vars

----------------------------------------------------------------------------
(* C24: last_signals[symbol] is set to a signal only when that signal has  *)
(* passed the four gate checks and was forwarded for execution; a signal   *)
(* the gate rejects never changes last_signals[symbol].  The code has it   *)
(* the other way round: the accepted path returns before the assignment,   *)
(* and the rejected path makes it.                                         *)
C24_LastSignalOnlyWhenAccepted ==
    [][ret'.op = "process_signal" =>
         /\ ret'.result = "none" => UNCHANGED last_signals
         /\ last_signals' # last_signals => ret'.result = "executed"]_vars

----------------------------------------------------------------------------
----------------------------------------------------------------------------
(* C26: within one update_all_positions sweep the updates of all reported  *)
(* non-zero positions are complete before the first closure check, so      *)
(* every closure decision of the sweep is taken on prices written in that  *)
(* same sweep: every symbol the closure checks look at (the symbols        *)
(* tracked before the sweep, and the ones the sweep has added) was         *)
(* reported with a non-zero amount, and so rewritten, in this sweep.  The  *)
(* code keeps the entry of a symbol that is reported flat (see C28), and   *)
(* its closure check decides on the prices of an earlier sweep.            *)
C26_ClosureSeesSweepPrices ==
    [][(ret'.op = "update_all_positions" /\ ret'.info_ok) =>
         \A s \in DOMAIN pm_positions :
             \E i \in DOMAIN ret'.report :
                 /\ ret'.report[i].symbol = s
                 /\ ret'.report[i].positionAmt # Zero]_vars

----------------------------------------------------------------------------
(* C28: after each update_all_positions sweep the tracked-position map has *)
(* an entry only for symbols with a non-zero position: a symbol whose      *)
(* reported position amount has become zero is present neither in the      *)
(* PositionManager's map nor in the RiskManager's.  The code skips an      *)
(* entry with a zero amount and removes nothing.                           *)
C28_FlatSymbolsDropped ==
    [][(ret'.op = "update_all_positions" /\ ret'.info_ok) =>
         \A i \in DOMAIN ret'.report :
             ret'.report[i].positionAmt = Zero =>
                 /\ ret'.report[i].symbol \notin DOMAIN pm_positions'
                 /\ ret'.report[i].symbol \notin DOMAIN rm_positions']_vars

----------------------------------------------------------------------------
(* C27: in update_all_positions a failure while processing one reported    *)
(* position (a malformed or failing entry, or a failing close order for    *)
(* one symbol) does not abort the sweep: every other well-formed non-zero  *)
(* reported position is still stored (or was closed by the sweep), and the *)
(* closure checks still run for every tracked symbol (a symbol that is     *)
(* still tracked and is to be closed has had its closing order placed).    *)
(* The code converts positionAmt outside the try block of                  *)
(* _update_position: an entry whose positionAmt is no number ends the for  *)
(* loop and skips the closure checks.                                      *)
C27_FailureDoesNotAbortSweep ==
    [][(ret'.op = "update_all_positions" /\ ret'.info_ok
        /\ account_balance # Zero) =>
         /\ \A i \in DOMAIN ret'.report :
                (ret'.report[i].valid = "ok" /\ ret'.report[i].positionAmt # Zero)
                => \/ /\ ret'.report[i].symbol \in DOMAIN pm_positions'
                       /\ pm_positions'[ret'.report[i].symbol].current_price
                              = ret'.report[i].markPrice
                   \/ \E k \in DOMAIN orders' :
                          /\ orders'[k].symbol = ret'.report[i].symbol
                          /\ orders'[k].ok
         /\ \A s \in DOMAIN pm_positions' :
                ShouldClosePosition(account_balance, rm_positions', s).close
                => \E k \in DOMAIN orders' : orders'[k].symbol = s]_vars

----------------------------------------------------------------------------
(* C29: in a sweep of the signal loop a failure while evaluating one       *)
(* symbol (indicator computation, signal generation or signal processing)  *)
(* is caught at that symbol's boundary: the remaining symbols of the sweep *)
(* are still evaluated, in the order of the symbol list, and the loop      *)
(* keeps running.  The try block of the code encloses the whole for loop:  *)
(* an exception of the strategy for one symbol skips the symbols after it. *)
C29_FailureSkipsOneSymbol ==
    [][(ret'.op = "signal_loop" /\ ret'.step = "error") =>
         /\ sig_pc' = "ready"
         /\ ret'.processed =
                SelectSeq(SymbolList,
                          LAMBDA s : ret'.signals[s].signal \in {"buy", "sell"})]_vars

\* C30: when an exchange call of a running engine's sweep fails, the engine
\* stops exactly if the failure is an authentication or permission failure:
\* such a failure clears the running flag, and every other failure leaves it
\* set.
C30_OnlyAuthFailureIsFatal ==
    [][(/\ ret'.op = "monitoring_loop"
        /\ ret'.step = "account_info"
        /\ ret'.raised # "none"
        /\ is_running)
       => (is_running' = FALSE <=> ret'.error_code = AuthErrorCode)]_vars

----------------------------------------------------------------------------
\* start() under a configuration: the symbol universe

\* the symbols an exchange lists, and the one the default configuration excludes
ListedSymbols == {"BTCUSDT", "ETHUSDT", "USDCUSDT"}

\* sequences without repetition over a set, of length 1 or 2
SymbolSeqs(S) ==
    {<<a>> : a \in S} \cup {p \in S \X S : p[1] # p[2]}

\* the settings _initialize_symbols reads
Configs ==
    [trade_all_symbols : BOOLEAN,
     symbols_to_trade : SymbolSeqs(ListedSymbols),
     coin_exclusion_list : SUBSET ListedSymbols]

\* answers of get_exchange_info: every listed symbol with its status
ExchangeInfos ==
    {<<[symbol |-> "BTCUSDT", status |-> "TRADING"],
       [symbol |-> "ETHUSDT", status |-> e],
       [symbol |-> "USDCUSDT", status |-> u]>> :
         e \in {"TRADING", "BREAK"}, u \in {"TRADING"}}

RECURSIVE TradableNotExcluded(_, _)
\* the list comprehension of _initialize_symbols
TradableNotExcluded(symbols, coin_exclusion_list) ==
    IF symbols = <<>> THEN <<>>
    ELSE (IF /\ Head(symbols).status = "TRADING"
             /\ Head(symbols).symbol \notin coin_exclusion_list
          THEN <<Head(symbols).symbol>> ELSE <<>>)
         \o TradableNotExcluded(Tail(symbols), coin_exclusion_list)

\* _initialize_symbols
InitializeSymbolsFor(config, exchange_info) ==
    IF config.trade_all_symbols
    THEN TradableNotExcluded(exchange_info, config.coin_exclusion_list)
    ELSE config.symbols_to_trade

\* start() of an engine built with the given configuration, every exchange
\* call answered
StartConfigured(config, exchange_info, balance) ==
    /\ sig_pc = "none" /\ mon_pc = "none"
    /\ initial_balance' = IF initial_balance = Zero THEN balance
                          ELSE initial_balance
    /\ account_balance' = balance
    /\ leverage_calls' =
           InitializeAccountLeverage(leverage_calls, symbols_to_trade)
    /\ symbols_to_trade' = InitializeSymbolsFor(config, exchange_info)
    /\ market_data' = SeedMarketData(market_data,
                           InitializeSymbolsFor(config, exchange_info), now)
    /\ signal_loops' = signal_loops + 1
    /\ monitoring_loops' = monitoring_loops + 1
    /\ is_running' = TRUE /\ sig_pc' = "ready" /\ mon_pc' = "ready"
    /\ ret' = [op |-> "start", outcome |-> "started", config |-> config]
    /\ orders' = <<>>
    /\ UNCHANGED <<rm_positions, daily_pnl_history, pm_positions, dry_run,
                   last_signals, twin_last_signals, stratVars, limVars, now,
                   mon_call, opening>>

NextSymbols ==
    \E config \in Configs, exchange_info \in ExchangeInfos :
        StartConfigured(config, exchange_info, I(1000))

SpecSymbols == InitEngine /\ [][NextSymbols]_vars

\* C31: after start() no symbol of the exclusion list is among the traded
\* symbols, whether the universe is the configured list or the exchange's.
C31_NoExcludedSymbolTraded ==
    (ret.op = "start" /\ "config" \in DOMAIN ret)
    => \A i \in DOMAIN symbols_to_trade :
           symbols_to_trade[i] \notin ret.config.coin_exclusion_list

----------------------------------------------------------------------------
\* The strategies driven as their unit tests drive them: indicators are set,
\* and generate_signal is called at an index.

\* the values of the EMA lines at the two last indices
EMAValues == {1, 2, 3}

\* the number of values an EMA series has before the two last ones
EMAPrefix == 3

\* series lengths: 3, 4 and 5 for the EMA lines
TailLengths == 0 .. 2

\* an indicator series: a constant prefix, then the previous and the current
\* value, cut to prefix + tail values
Series(prefix, fill, prev, cur, tail) ==
    [i \in 1 .. (prefix + tail) |->
        IF i <= prefix THEN fill ELSE IF i = prefix + 1 THEN prev ELSE cur]

TripleEMAIndicators ==
    {EmptyMap} \cup
    { [n \in {"ema_fast", "ema_medium", "ema_slow"} |->
          Series(EMAPrefix, 2,
                 IF n = "ema_fast" THEN v[1] ELSE IF n = "ema_medium" THEN v[2] ELSE v[3],
                 IF n = "ema_fast" THEN v[4] ELSE IF n = "ema_medium" THEN v[5] ELSE v[6],
                 t)] :
        v \in [1 .. 6 -> EMAValues], t \in TailLengths }

\* the values of %K and %D, on both sides of the two zones
StochValues == {10, 15, 85, 90}

RSIValues == {40, 50, 60}

MACDValues == {1, 2}

\* the number of values a series has before the two last ones
StochPrefix == 49

StochRSIMACDIndicators ==
    {EmptyMap} \cup
    { [n \in {"rsi", "stoch_k", "stoch_d", "macd", "macd_signal"} |->
          CASE n = "rsi" -> Series(StochPrefix, 50, r, r, t)
            [] n = "stoch_k" -> Series(StochPrefix, 50, kd[1], kd[2], t)
            [] n = "stoch_d" -> Series(StochPrefix, 50, kd[3], kd[4], t)
            [] n = "macd" -> Series(StochPrefix, 0, m[1], m[2], t)
            [] n = "macd_signal" -> Series(StochPrefix, 0, m[3], m[4], t)] :
        r \in RSIValues, kd \in [1 .. 4 -> StochValues],
        m \in [1 .. 4 -> MACDValues], t \in TailLengths }

Strategies ==
    { [name |-> "tripleEMA", parameters |-> TripleEMAParameters,
       indicators |-> ind] : ind \in TripleEMAIndicators }
    \cup
    { [name |-> "StochRSIMACD", parameters |-> StochRSIMACDParameters,
       indicators |-> ind] : ind \in StochRSIMACDIndicators }

\* the indices generate_signal is called at: below the lookback, at it, and
\* past the end of the series
Indices(s) ==
    IF s.name = "tripleEMA" THEN {0, 3, 4, 5} ELSE {10, 49, 50, 51}

\* strategy.generate_signal(data, current_index)
GenerateSignal(current_index) ==
    /\ ret' = [op |-> "generate_signal", current_index |-> current_index,
               result |-> GenerateSignalOf(strategy, current_index)]
    /\ orders' = <<>>
    /\ UNCHANGED <<rmVars, pm_positions, dry_run, last_signals, loopVars,
                   startVars, auxVars>>

InitStrategy == InitBase /\ dry_run = FALSE /\ strategy \in Strategies

NextStrategy == \E current_index \in Indices(strategy) : GenerateSignal(current_index)

SpecStrategy == InitStrategy /\ [][NextStrategy]_vars

\* the value of a series of the strategy at a Python index
At(indicator_name, index) == strategy.indicators[indicator_name][index + 1]

\* every series of the strategy has the indices i - 1 and i
InRange(i) ==
    /\ i >= 1
    /\ DOMAIN strategy.indicators # {}
    /\ \A n \in DOMAIN strategy.indicators : i < Len(strategy.indicators[n])

BuyConditionsAt(i) ==
    Score(<<At("stoch_k", i) < strategy.parameters.stoch_oversold
              /\ At("stoch_d", i) < strategy.parameters.stoch_oversold,
            At("rsi", i) > 50,
            At("macd", i) > At("macd_signal", i)
              /\ At("macd", i - 1) < At("macd_signal", i - 1),
            At("stoch_k", i) > At("stoch_d", i)
              /\ At("stoch_k", i - 1) < At("stoch_d", i - 1)>>)

SellConditionsAt(i) ==
    Score(<<At("stoch_k", i) > strategy.parameters.stoch_overbought
              /\ At("stoch_d", i) > strategy.parameters.stoch_overbought,
            At("rsi", i) < 50,
            At("macd", i) < At("macd_signal", i)
              /\ At("macd", i - 1) > At("macd_signal", i - 1),
            At("stoch_k", i) < At("stoch_d", i)
              /\ At("stoch_k", i - 1) > At("stoch_d", i - 1)>>)

Lookback(s) ==
    IF s.name = "tripleEMA" THEN s.parameters.min_candles ELSE StochLookback

\* C34: for both strategies generate_signal never raises and never changes
\* the cached indicators or the parameters, and it returns Hold with
\* confidence 0 when the index is below the minimum lookback, when the
\* indicators are missing, and when a series is shorter than the index needs.
C34_HoldsWithoutRaising ==
    [][ret'.op = "generate_signal"
       => /\ strategy' = strategy
          /\ ret'.result.signal \in {"buy", "sell", "hold"}
          /\ (ret'.current_index < Lookback(strategy)
              \/ ~InRange(ret'.current_index))
             => ret'.result = HoldResult]_vars

\* generate_signal was called at the lookback on a strategy whose indicators
\* were never computed, and on one whose series end before the index
C34_Witness ==
    /\ ret.op = "generate_signal"
    /\ ret.current_index >= Lookback(strategy)
    /\ \/ strategy.indicators = EmptyMap
       \/ /\ DOMAIN strategy.indicators # {}
          /\ \E n \in DOMAIN strategy.indicators :
                 Len(strategy.indicators[n]) = ret.current_index
    /\ ret.result = HoldResult

----------------------------------------------------------------------------
\* The engine while the exchange's clock advances: every polling tick the
\* exchange has a new window of candles for every symbol.

\* the polling ticks followed
MaxTicks == 2

\* a polling interval passes
Tick ==
    /\ now < MaxTicks
    /\ now' = now + 1
    /\ ret' = [op |-> "tick"]
    /\ orders' = <<>>
    /\ UNCHANGED <<rmVars, pm_positions, dry_run, last_signals, loopVars,
                   startVars, twin_last_signals, stratVars, limVars, market_data,
                   taskVars>>

NextData ==
    \/ \E outcome \in StartOutcomes : Start(outcome, I(1000))
    \/ Stop
    \/ SignalLoop
    \/ MonitorWake
    \/ MonitorAccountInfo(TRUE, NoError, NoReport)
    \/ Tick

SpecData == InitEngine /\ [][NextData]_vars

\* C35: the windows a signal-loop sweep evaluates were fetched at the tick of
\* that sweep: a sweep made after a polling interval has passed does not
\* evaluate the windows start() stored.
C35_SweepUsesWindowOfItsTick ==
    (ret.op = "signal_loop" /\ ret.step = "sweep")
    => \A s \in DOMAIN ret.windows : ret.windows[s].fetched_at = ret.at

----------------------------------------------------------------------------
\* A RiskManager whose daily P&L history is filled past its cap: the k-th call
\* of update_daily_pnl appends the sample k, so that every sample of the
\* history tells when it was appended.

\* the number of update_daily_pnl calls followed
MaxCalls == 750

\* the calls of update_daily_pnl made so far
DailyPnlCalls == IF ret.op = "update_daily_pnl" THEN ret.call ELSE 0

\* risk_manager.update_daily_pnl(pnl), as the call-th call
UpdateDailyPnlCall(call, pnl) ==
    /\ call <= MaxCalls
    /\ LET appended == Append(daily_pnl_history, pnl)
       IN  daily_pnl_history' =
               IF Len(appended) > HistoryCap
               THEN LastSamples(appended, HistoryCap) ELSE appended
    /\ ret' = [op |-> "update_daily_pnl", call |-> call, pnl |-> pnl]
    /\ orders' = <<>>
    /\ UNCHANGED <<account_balance, initial_balance, rm_positions,
                   pm_positions, dry_run, last_signals, engVars>>

NextHistory ==
    \E call \in {DailyPnlCalls + 1} : UpdateDailyPnlCall(call, I(call))

SpecHistory == InitRisk /\ [][NextHistory]_vars

\* C36: after any number of update_daily_pnl calls the history holds at most
\* 720 samples, they are the most recently appended ones in insertion order,
\* and the trailing daily P&L is the sum of the last 24 of them (0 when the
\* history is empty).
C36_HistoryKeepsLatest ==
    LET calls == DailyPnlCalls
        n == Len(daily_pnl_history)
        m == IF calls < 24 THEN calls ELSE 24
    IN  /\ n = (IF calls < 720 THEN calls ELSE 720)
        /\ \A i \in 1 .. n : daily_pnl_history[i] = I(calls - n + i)
        /\ CalculateDailyPnl(daily_pnl_history)
               = I(m * calls - (m * (m - 1)) \div 2)

\* the oldest samples have been evicted: 721 or more calls were made
C36_Witness ==
    /\ DailyPnlCalls > 720
    /\ Len(daily_pnl_history) = 720
    /\ daily_pnl_history[1] = I(DailyPnlCalls - 719)

----------------------------------------------------------------------------
\* The engine's lifecycle: start() and stop() called in any order. The tasks
\* of each kind are counted; a task steps by testing the flag, and then either
\* makes a sweep or returns.

\* the tasks of one kind followed
MaxLoops == 2

\* start() with every exchange call answered. Nothing in it tests is_running
\* or looks for tasks created earlier.
StartCall(balance) ==
    /\ signal_loops < MaxLoops /\ monitoring_loops < MaxLoops
    /\ initial_balance' = IF initial_balance = Zero THEN balance
                          ELSE initial_balance
    /\ account_balance' = balance
    /\ leverage_calls' =
           InitializeAccountLeverage(leverage_calls, symbols_to_trade)
    /\ symbols_to_trade' = InitializeSymbols
    /\ market_data' = SeedMarketData(market_data, InitializeSymbols, now)
    /\ signal_loops' = signal_loops + 1
    /\ monitoring_loops' = monitoring_loops + 1
    /\ is_running' = TRUE /\ sig_pc' = "ready" /\ mon_pc' = "ready"
    /\ ret' = [op |-> "start", outcome |-> "started"]
    /\ orders' = <<>>
    /\ UNCHANGED <<rm_positions, daily_pnl_history, pm_positions, dry_run,
                   last_signals, twin_last_signals, stratVars, limVars, now,
                   mon_call, opening>>

\* one signal_loop task wakes and tests the flag
SignalTaskStep ==
    /\ signal_loops > 0
    /\ signal_loops' = IF LoopContinues(is_running) THEN signal_loops
                       ELSE signal_loops - 1
    /\ sig_pc' = IF signal_loops' = 0 THEN "done" ELSE "ready"
    /\ ret' = [op |-> "signal_loop",
               step |-> IF LoopContinues(is_running) THEN "wake" ELSE "exit"]
    /\ orders' = <<>>
    /\ UNCHANGED <<rmVars, pm_positions, dry_run, last_signals, is_running,
                   mon_pc, mon_call, opening, startVars, twin_last_signals,
                   stratVars, limVars, dataVars, monitoring_loops>>

\* one monitoring_loop task wakes and tests the flag
MonitoringTaskStep ==
    /\ monitoring_loops > 0
    /\ monitoring_loops' = IF LoopContinues(is_running) THEN monitoring_loops
                           ELSE monitoring_loops - 1
    /\ mon_pc' = IF monitoring_loops' = 0 THEN "done" ELSE "ready"
    /\ ret' = [op |-> "monitoring_loop",
               step |-> IF LoopContinues(is_running) THEN "wake" ELSE "exit"]
    /\ orders' = <<>>
    /\ UNCHANGED <<rmVars, pm_positions, dry_run, last_signals, is_running,
                   sig_pc, mon_call, opening, startVars, twin_last_signals,
                   stratVars, limVars, dataVars, signal_loops>>

NextLifecycle ==
    \/ \E b \in {I(1000), I(500)} : StartCall(b)
    \/ Stop
    \/ SignalTaskStep
    \/ MonitoringTaskStep
    \/ Tick

SpecLifecycle == InitEngine /\ [][NextLifecycle]_vars

\* C37: whatever start() and stop() calls are made, at most one signal loop
\* and at most one monitoring loop are alive.
C37_OneLoopOfEachKind ==
    signal_loops <= 1 /\ monitoring_loops <= 1

----------------------------------------------------------------------------
\* C38: when process_signal is handed, for one symbol, the signal it has just
\* acted upon (same direction, confidence less than 0.1 away), it rejects the
\* repeat.
C38_RepeatIsRejected ==
    [][(/\ ret.op = "process_signal"
        /\ ret.result = "executed"
        /\ ret'.op = "process_signal"
        /\ ret'.symbol = ret.symbol
        /\ ret'.signal.signal = ret.signal.signal
        /\ ret'.signal.confidence - ret.signal.confidence < 10
        /\ ret.signal.confidence - ret'.signal.confidence < 10)
       => ret'.result = "none"]_vars

----------------------------------------------------------------------------
\* C39: once stop() has returned, neither loop issues a new order call: the
\* monitoring loop begins no closure and no open_position places an order,
\* wherever the loops were suspended when stop() was called.
C39_NoOrderAfterStop ==
    [][~is_running
       => /\ mon_call' \in {mon_call, Idle}
          /\ opening' \in {opening, Idle}]_vars

----------------------------------------------------------------------------
\* The exchange client's RateLimiter (api/client.py), called by the two loops.
\* Its window is scaled down: 2 requests in 3 seconds stand for the default
\* 1200 requests in 60 seconds.

max_requests == 2

time_window == 3

\* the seconds followed
MaxClock == 5

\* the callers of acquire: the tasks of the two loops
Callers == {"signal_loop", "monitoring_loop"}

\* the requests still inside the window at time t
InWindow(reqs, t) == SelectSeq(reqs, LAMBDA req_time : t - req_time < time_window)

\* acquire up to its sleep: the old requests are dropped; a full window
\* suspends the caller until the oldest request leaves it, and otherwise the
\* request is recorded and the call returns
AcquireCall(caller) ==
    /\ \A sl \in sleeping : sl.caller # caller
    /\ Len(sent) < MaxClock * max_requests
    /\ \E kept \in {InWindow(requests, clock)} :
           IF /\ Len(kept) >= max_requests
              /\ time_window - (clock - kept[1]) > 0
           THEN /\ sleeping' = sleeping \cup
                       {[caller |-> caller, now |-> clock,
                         wake |-> clock + time_window - (clock - kept[1])]}
                /\ requests' = kept
                /\ sent' = sent
                /\ ret' = [op |-> "acquire", caller |-> caller,
                           result |-> "suspended"]
           ELSE /\ requests' = Append(kept, clock)
                /\ sent' = Append(sent, clock)
                /\ sleeping' = sleeping
                /\ ret' = [op |-> "acquire", caller |-> caller,
                           result |-> "returned"]
    /\ orders' = <<>>
    /\ UNCHANGED <<rmVars, pm_positions, dry_run, last_signals, loopVars,
                   startVars, twin_last_signals, stratVars, dataVars, taskVars,
                   clock>>

\* acquire after its sleep: the list is emptied, the time read before the
\* sleep is recorded, and the call returns
AcquireWake(sl) ==
    /\ sl \in sleeping
    /\ clock >= sl.wake
    /\ requests' = <<sl.now>>
    /\ sent' = Append(sent, clock)
    /\ sleeping' = sleeping \ {sl}
    /\ ret' = [op |-> "acquire", caller |-> sl.caller, result |-> "returned"]
    /\ orders' = <<>>
    /\ UNCHANGED <<rmVars, pm_positions, dry_run, last_signals, loopVars,
                   startVars, twin_last_signals, stratVars, dataVars, taskVars,
                   clock>>

\* a second passes; a sleep that is over ends before the clock moves on
ClockTick ==
    /\ clock < MaxClock
    /\ \A sl \in sleeping : sl.wake > clock
    /\ clock' = clock + 1
    /\ ret' = [op |-> "clock"]
    /\ orders' = <<>>
    /\ UNCHANGED <<rmVars, pm_positions, dry_run, last_signals, loopVars,
                   startVars, twin_last_signals, stratVars, dataVars, taskVars,
                   requests, sleeping, sent>>

NextLimiter ==
    \/ \E caller \in Callers : AcquireCall(caller)
    \/ \E sl \in sleeping : AcquireWake(sl)
    \/ ClockTick

SpecLimiter == InitEngine /\ [][NextLimiter]_vars

\* C40: acquire never lets more than max_requests requests through within
\* an interval of length time_window.
C40_AtMostMaxRequestsPerWindow ==
    \A t \in 0 .. MaxClock :
        Cardinality({i \in DOMAIN sent : t <= sent[i] /\ sent[i] < t + time_window})
            <= max_requests

====
